---- MODULE Spec2Model ----
(***************************************************************************)
(* Retrieval-and-grounding pipeline of the book chatbot backend:           *)
(*   agents/rag_agent.py      RAGAgent (answer orchestrator)               *)
(*   agents/query_classifier.py  QueryClassifier                           *)
(*   rag/retriever.py         Retriever                                    *)
(*   rag/reranker.py          Reranker                                     *)
(*   db/qdrant_client.py      search_vectors, batch_upsert_with_retry      *)
(*   rag/chunker.py           Chunker, process_book                        *)
(*   rag/embedder.py          get_embedder                                 *)
(*   api/routes.py            chat (validation of the request), load_book, *)
(*                            personalize_chapter                          *)
(*                                                                         *)
(* Similarity scores are floats in [0,1] in the code; here they are        *)
(* integers in tenths (7 stands for 0.7).  Python's None and a missing     *)
(* dict key are the empty tuple, a present value x is <<x>>.               *)
(***************************************************************************)
EXTENDS Integers, Sequences, FiniteSets, TLC

VARIABLES
    pc,               \* position of the running call
    cfg,              \* settings: confidence threshold and similarity floor
    query,            \* the query argument: "text", "" or whitespace only
    classification,   \* classify's return value, None before it returns
    top_n,            \* the top_n argument of the current rerank call
    search_results,   \* what search_vectors returned (raw index results)
    retrieved_chunks, \* Retriever.retrieve's return value
    model_scores,     \* CrossEncoder.predict's return value, <<>> if none
    reranked_chunks,  \* Reranker.rerank's return value
    citations,        \* _extract_citations' return value
    result,           \* the dict answer() returned, None until it returns
    calls,            \* log of the remote calls made: <<name, outcome>>
    points,           \* batch_upsert_with_retry: the points argument (ids)
    batch_size,       \* its batch_size argument
    max_retries,      \* its max_retries argument
    retry_delay,      \* its retry_delay argument, in seconds
    batch_idx,        \* its outer loop variable (0-based offset into points)
    attempt,          \* its inner loop variable
    total_upserted,   \* its running count
    collection,       \* ids of the points the Vector Index holds
    upsert_log,       \* upsert_points calls made: <<batch_num, outcome>>
    sleeps,           \* arguments of the time.sleep calls made, in order
    upsert_outcome,   \* what batch_upsert_with_retry handed to its caller
    chunk_size,       \* Chunker.chunk_size
    chunk_overlap,    \* Chunker.chunk_overlap
    text_sentences,   \* token counts of the sentences of the text
    text_chunks,      \* chunk_text's return value
    embedding_model,  \* settings.EMBEDDING_MODEL of the process
    request_model,    \* request.embedding_model of the running load_book
    qdrant,           \* the Vector Index: per collection, its size and points
    chapter_rows,     \* chapter_number of the rows of table chapters
    paragraph_rows,   \* rows of table paragraphs
    passes,           \* load_book calls started so far
    qdrant_points,    \* load_book's local list of points to upsert
    load_status,      \* how the last load_book call ended, None before
    embedder_instance,   \* rag.embedder._embedder_instance
    classifier_instance, \* agents.query_classifier._classifier_instance
    retriever_instance,  \* rag.retriever._retriever_instance
    agent_instance,      \* agents.rag_agent._agent_instance
    built,            \* how many clients of each kind were constructed
    handles,          \* the handle each use obtained: <<kind, instance>>
    book_lines,       \* process_book: the lines of book_content
    line_no,          \* 1-based position of its loop over the lines
    current_chapter,  \* its current_chapter dict, None before a header
    current_section,  \* its current_section, None without a section
    current_content,  \* its current_content (token counts of the lines)
    chapters,         \* its chapters list
    req_pc,           \* personalize_chapter: position of each request
    cache_rows,       \* rows of table personalized_content for the key
    agent_text,       \* what personalize_content returned to each request
    responses,        \* the response each request got, None before
    chapter_stored    \* whether the chapter and its paragraphs are stored

pipeline_vars == <<cfg, query, classification, top_n, search_results, retrieved_chunks,
                   model_scores, reranked_chunks, citations, result, calls>>
upsert_vars == <<points, batch_size, max_retries, retry_delay, batch_idx, attempt,
                 total_upserted, collection, upsert_log, sleeps, upsert_outcome>>
chunker_vars == <<chunk_size, chunk_overlap, text_sentences, text_chunks>>

ingest_vars == <<embedding_model, request_model, qdrant, chapter_rows, paragraph_rows,
                 passes, qdrant_points, load_status>>
process_vars == <<embedder_instance, classifier_instance, retriever_instance,
                  agent_instance, built, handles>>

book_vars == <<book_lines, line_no, current_chapter, current_section, current_content,
               chapters>>
personalize_vars == <<req_pc, cache_rows, agent_text, responses, chapter_stored>>

vars == <<pc, pipeline_vars, upsert_vars, chunker_vars, ingest_vars, process_vars,
          book_vars, personalize_vars>>

None == <<>>
Some(x) == <<x>>

Min(a, b) == IF a <= b THEN a ELSE b

\* No ingestion call and no chunker are part of the run.
UpsertIdle ==
    /\ points = <<>>
    /\ batch_size = 1
    /\ max_retries = 1
    /\ retry_delay = 1
    /\ batch_idx = 0
    /\ attempt = 0
    /\ total_upserted = 0
    /\ collection = {}
    /\ upsert_log = <<>>
    /\ sleeps = <<>>
    /\ upsert_outcome = None

ChunkerIdle ==
    /\ chunk_size = 1
    /\ chunk_overlap = 0
    /\ text_sentences = <<>>
    /\ text_chunks = <<>>

\* No load_book call is part of the run.
IngestIdle ==
    /\ embedding_model = "openai"
    /\ request_model = "openai"
    /\ qdrant = <<>>
    /\ chapter_rows = {}
    /\ paragraph_rows = {}
    /\ passes = 0
    /\ qdrant_points = <<>>
    /\ load_status = None

\* The module-level handles are not part of the run.
ProcessIdle ==
    /\ embedder_instance = None
    /\ classifier_instance = None
    /\ retriever_instance = None
    /\ agent_instance = None
    /\ built = <<>>
    /\ handles = <<>>

\* No process_book call is part of the run.
BookIdle ==
    /\ book_lines = <<>>
    /\ line_no = 1
    /\ current_chapter = None
    /\ current_section = None
    /\ current_content = <<>>
    /\ chapters = <<>>

\* No /personalize request is part of the run.
PersonalizeIdle ==
    /\ req_pc = <<>>
    /\ cache_rows = {}
    /\ agent_text = <<>>
    /\ responses = <<>>
    /\ chapter_stored = FALSE

\* ---------------------------------------------------------------- bounds

\* The Vector Index returns at most this many hits per search.
MaxResults == 3
\* Largest top_n argument tried on Reranker.rerank.
MaxTopN == 3
\* Longest chunk list handed to _extract_citations on its own.
MaxCited == 3
\* Most points handed to batch_upsert_with_retry.
MaxPoints == 3
\* Largest batch_size tried.
MaxBatchSize == 2
\* Largest max_retries tried (the default is 3).
MaxRetries == 4
\* Most sentences in a text handed to chunk_text.
MaxSentences == 4
\* Most tokens in one sentence.
MaxSentenceTokens == 5
\* Segments the book is chunked into, and load_book calls in one run.
MaxSegments == 2
MaxPasses == 2
\* Handle acquisitions followed in one process.
MaxHandleUses == 4
\* Most lines of a book given to process_book.
MaxBookLines == 5
\* Most hits of a search that returns more than rerank keeps.
MaxWide == 6
\* Concurrent /personalize requests for one (chapter_id, difficulty_level).
MaxRequests == 3
\* Most sentences of the 600-token paragraph.
MaxParagraphSentences == 3
\* Largest chunk_size and chunk_overlap tried (token counts are scaled down:
\* the validators accept 100..1000 and 0..200).
MaxChunkSize == 4
MaxChunkOverlap == 3

\* ------------------------------------------------------ program constants

\* settings.RETRIEVAL_CONFIDENCE_THRESHOLD default, 0.7
DEFAULT_CONFIDENCE_THRESHOLD == 7
\* settings.RETRIEVAL_SCORE_THRESHOLD default, 0.7
DEFAULT_SCORE_THRESHOLD == 7
\* the literal 0.5 of generate_answer_with_fallback
SECOND_THRESHOLD == 5
\* retrieve(..., top_k=10) in generate_answer
RETRIEVE_TOP_K == 10
\* rerank(..., top_n=5) in generate_answer
RERANK_CALL_TOP_N == 5
\* settings.RERANK_TOP_N default
RERANK_TOP_N == 5
\* settings.CHUNK_SIZE default, in tokens
DEFAULT_CHUNK_SIZE == 512
\* settings.CHUNK_OVERLAP default, in tokens
DEFAULT_CHUNK_OVERLAP == 50

\* ------------------------------------------------------------ input sets

\* A query with content, the empty one and one of whitespace only.
Queries == {"text", "", "   "}
\* str.strip()
Strip(q) == IF q = "   " THEN "" ELSE q
\* A guard that forgets strip().
IsEmpty(q) == q = ""
\* "not query or not query.strip()"
IsBlank(q) == q = "" \/ Strip(q) = ""

\* Settings the process may run with (the defaults and a lower value each).
ConfidenceThresholds == {3, DEFAULT_CONFIDENCE_THRESHOLD}
ScoreThresholds == {0, DEFAULT_SCORE_THRESHOLD}

\* Similarity scores a hit may carry, in tenths.
Scores == {2, 4, 6, 7, 8}
\* Cross-encoder scores (model-specific scale).
RerankScores == {1, 2}

\* The points the index holds, with the payload load_book wrote for each.
Points == {"p1", "p2", "p3"}
\* p3 was written without a section_name key.
PayloadOf(id) ==
    CASE id = "p1" -> [chapter_title |-> Some("A"), section_name |-> Some("1.1"),
                       paragraph_index |-> Some(0)]
      [] id = "p2" -> [chapter_title |-> Some("A"), section_name |-> Some("1.1"),
                       paragraph_index |-> Some(1)]
      [] id = "p3" -> [chapter_title |-> Some("B"), section_name |-> None,
                       paragraph_index |-> Some(0)]

SeqsUpTo(S, n) == UNION {[1..k -> S] : k \in 0..n}

\* Python's s[:n] for n >= 0.
Take(s, n) == SubSeq(s, 1, Min(n, Len(s)))

\* dict.get(key, default)
Get(opt, default) == IF opt = None THEN default ELSE opt[1]

\* ------------------------------------------------- db/qdrant_client.py

\* A hit as search_vectors formats it.
Hit(id, score) == [id |-> id, score |-> score, payload |-> PayloadOf(id)]

\* An index that does not apply the floor.
SearchIgnoresFloor(top_k, floor) ==
    {s \in SeqsUpTo({[id |-> id, score |-> sc, payload |-> PayloadOf(id)] :
                        id \in Points, sc \in Scores}, Min(top_k, MaxResults)) :
        \A i, j \in 1..Len(s) : i # j => s[i].id # s[j].id}

\* The result lists query_points may hand back for limit top_k and
\* score_threshold floor: at most top_k distinct points, none scoring below
\* the floor.  The search contract fixes no order among them.
SearchOutcomes(top_k, floor) ==
    {s \in SeqsUpTo({Hit(id, sc) : id \in Points, sc \in Scores}, Min(top_k, MaxResults)) :
        /\ \A i \in 1..Len(s) : s[i].score >= floor
        /\ \A i, j \in 1..Len(s) : i # j => s[i].id # s[j].id}

\* ------------------------------------------------------ rag/retriever.py

\* The chunk dict retrieve builds from one search result.
FormatChunk(r) ==
    [id |-> r.id,
     score |-> r.score,
     chapter_title |-> Some(Get(r.payload.chapter_title, "")),
     section_name |-> Some(Get(r.payload.section_name, "")),
     paragraph_index |-> Some(Get(r.payload.paragraph_index, 0)),
     rerank_score |-> None]

FormatChunksReversed(results) ==
    [i \in 1..Len(results) |-> FormatChunk(results[Len(results) + 1 - i])]

\* The loop of retrieve over the results, in result order.
FormatChunks(results) == [i \in 1..Len(results) |-> FormatChunk(results[i])]

\* ------------------------------------------------------- rag/reranker.py

RECURSIVE InsertDesc(_, _)
\* x goes before the first element with a strictly smaller rerank_score.
InsertDesc(x, s) ==
    IF s = <<>> THEN <<x>>
    ELSE IF x.rerank_score[1] > Head(s).rerank_score[1] THEN <<x>> \o s
    ELSE <<Head(s)>> \o InsertDesc(x, Tail(s))

RECURSIVE InsertAsc(_, _)
InsertAsc(x, s) ==
    IF s = <<>> THEN <<x>>
    ELSE IF x.rerank_score[1] < Head(s).rerank_score[1] THEN <<x>> \o s
    ELSE <<Head(s)>> \o InsertAsc(x, Tail(s))

RECURSIVE SortedAscending(_)
\* The sort without reverse=True.
SortedAscending(s) ==
    IF s = <<>> THEN <<>>
    ELSE InsertAsc(s[Len(s)], SortedAscending(SubSeq(s, 1, Len(s) - 1)))

RECURSIVE SortedByRerankScore(_)
\* sorted(chunks, key=rerank_score, reverse=True): stable, descending.
SortedByRerankScore(s) ==
    IF s = <<>> THEN <<>>
    ELSE InsertDesc(s[Len(s)], SortedByRerankScore(SubSeq(s, 1, Len(s) - 1)))

\* A fallback that hands back every chunk it was given.
RerankFailureReturnsAll(chunks, n) == chunks

\* rerank's except clause: chunks[:n], the input untouched.
RerankOnModelFailure(chunks, n) == Take(chunks, n)

\* A rerank that sorts but keeps every chunk.
RerankUntruncated(q, chunks, n_arg, predicted) ==
    IF chunks = <<>> \/ IsBlank(q) \/ predicted = None THEN chunks
    ELSE SortedByRerankScore([i \in 1..Len(chunks) |->
                                [chunks[i] EXCEPT !.rerank_score = Some(predicted[1][i])]])

\* Reranker.rerank.  predicted is None when CrossEncoder.predict raises and
\* <<scores>> when it returns one score per chunk.
Rerank(q, chunks, n_arg, predicted) ==
    IF chunks = <<>> THEN <<>>
    ELSE IF IsBlank(q) THEN chunks
    ELSE LET n == Get(n_arg, RERANK_TOP_N) IN
         IF predicted = None THEN RerankOnModelFailure(chunks, n)
         ELSE LET scored == [i \in 1..Len(chunks) |->
                                [chunks[i] EXCEPT !.rerank_score = Some(predicted[1][i])]]
                  top_reranked == Take(SortedByRerankScore(scored), n)
              IN IF top_reranked = <<>>
                 THEN Take(scored, n)   \* top_reranked[0] raises inside the try
                 ELSE top_reranked

\* Whether rerank reaches CrossEncoder.predict.
RerankCallsModel(q, chunks) == chunks # <<>> /\ ~IsBlank(q)

\* What predict may do on these chunks.
PredictOutcomes(chunks) == {None} \cup {Some(sc) : sc \in [1..Len(chunks) -> RerankScores]}

\* ------------------------------------------- agents/query_classifier.py

\* What the classification completion may say, upper-cased and stripped.
ClassifierReplies == {"IN_SCOPE", "IN-SCOPE", "OUT_OF_SCOPE", "MAYBE"}

\* A classifier that treats a failed call as out of scope.
ClassifyFailsClosed(reply) ==
    IF reply = None THEN "OUT_OF_SCOPE"
    ELSE IF reply[1] \in {"IN_SCOPE", "IN-SCOPE"} THEN "IN_SCOPE"
    ELSE "OUT_OF_SCOPE"

\* QueryClassifier.classify.  reply is None when the completion call raises.
Classify(reply) ==
    IF reply = None THEN "IN_SCOPE"
    ELSE IF reply[1] \in {"IN_SCOPE", "IN-SCOPE"} THEN "IN_SCOPE"
    ELSE "OUT_OF_SCOPE"

\* ------------------------------------------------- agents/rag_agent.py

CANNOT_ANSWER == "I cannot answer this from the book content."
APOLOGY == "I apologize, but I'm unable to answer that question right now."

\* Texts the grounded completion may return (the system prompt asks for
\* the fallback sentence verbatim when the context is insufficient).
GroundedAnswers == {"grounded answer", CANNOT_ANSWER}
GeneralAnswers == {"general answer"}

RECURSIVE ExtractFrom(_, _, _)
\* The loop of _extract_citations from chunk i on.
ExtractFrom(chunks, i, acc) ==
    IF i > Len(chunks) THEN acc.citations
    ELSE LET chunk == chunks[i]
             chapter_title == Get(chunk.chapter_title, "Unknown Chapter")
             section_name == chunk.section_name
             citation_key == <<chapter_title, section_name>>
             citation == [chapter |-> chapter_title,
                          section |-> IF section_name # None /\ section_name[1] # ""
                                      THEN section_name ELSE None,
                          paragraph |-> chunk.paragraph_index]
         IN IF citation_key \notin acc.seen
            THEN ExtractFrom(chunks, i + 1,
                             [citations |-> Append(acc.citations, citation),
                              seen |-> acc.seen \cup {citation_key}])
            ELSE ExtractFrom(chunks, i + 1, acc)

ExtractWithoutDedup(chunks) ==
    [i \in 1..Len(chunks) |->
        [chapter |-> Get(chunks[i].chapter_title, "Unknown Chapter"),
         section |-> IF chunks[i].section_name # None /\ chunks[i].section_name[1] # ""
                     THEN chunks[i].section_name ELSE None,
         paragraph |-> chunks[i].paragraph_index]]

\* RAGAgent._extract_citations
ExtractCitations(chunks) == ExtractFrom(chunks, 1, [citations |-> <<>>, seen |-> {}])

\* RAGAgent._fallback_response
FallbackResponse ==
    [answer |-> CANNOT_ANSWER, citations |-> <<>>, retrieval_score |-> 0,
     chunks_used |-> 0, fallback |-> TRUE]

MaxScore(chunks) ==
    LET scores == {chunks[i].score : i \in 1..Len(chunks)} IN
    CHOOSE s \in scores : \A t \in scores : t <= s

\* The top_score generate_answer reads off the reranked chunks.
TopScore(chunks) == chunks[1].score

BestScoreBelow(chunks, threshold) ==
    \A i \in 1..Len(chunks) : chunks[i].score < threshold

\* The confidence check of generate_answer.
BelowConfidence(chunks, threshold) == TopScore(chunks) < threshold

\* A dict whose retrieval_score is the cross-encoder score.
GroundedResultRerankScore(answer, chunks) ==
    [answer |-> answer, citations |-> ExtractCitations(chunks),
     retrieval_score |-> Get(chunks[1].rerank_score, 0), chunks_used |-> Len(chunks),
     fallback |-> FALSE]

\* The dict generate_answer returns after a successful completion.
GroundedResult(answer, chunks) ==
    [answer |-> answer, citations |-> ExtractCitations(chunks),
     retrieval_score |-> TopScore(chunks), chunks_used |-> Len(chunks),
     fallback |-> FALSE]

NeedsFallbackFlagOnly(res) == res.fallback

\* The check generate_answer_with_fallback makes on generate_answer's dict.
NeedsOpenAIFallback(res) == res.fallback \/ res.retrieval_score < SECOND_THRESHOLD

BookResultUnlabelled(res) ==
    [answer |-> res.answer, citations |-> res.citations,
     retrieval_score |-> res.retrieval_score, chunks_used |-> res.chunks_used,
     fallback |-> res.fallback, answer_type |-> ""]

\* result["answer_type"] = "BOOK"
BookResult(res) ==
    [answer |-> res.answer, citations |-> res.citations,
     retrieval_score |-> res.retrieval_score, chunks_used |-> res.chunks_used,
     fallback |-> res.fallback, answer_type |-> "BOOK"]

AfterGenerateAnswerReturns(res) == "done"

\* Where generate_answer_with_fallback goes with generate_answer's dict.
AfterGenerateAnswer(res) == IF NeedsOpenAIFallback(res) THEN "general" ELSE "done"

ResultAfterGenerateAnswer(res) ==
    IF NeedsOpenAIFallback(res) THEN None ELSE Some(BookResult(res))

RouteAlwaysRetrieves(c) == "retrieve"

\* The routing of generate_answer_with_fallback on the classification.
Route(c) == IF c = "OUT_OF_SCOPE" THEN "general" ELSE "retrieve"

Propagate == "raised"

RetryOnPipelineException == "retrieve"

\* Where an exception of generate_answer lands: the except clause of
\* generate_answer_with_fallback calls _openai_fallback.
OnPipelineException == "general"

GeneralResultKeepsStats(answer) ==
    [answer |-> answer, citations |-> <<>>,
     retrieval_score |-> IF reranked_chunks = <<>> THEN 0 ELSE TopScore(reranked_chunks),
     chunks_used |-> Len(reranked_chunks), fallback |-> TRUE,
     answer_type |-> "GENERAL_AI"]

\* _openai_fallback, the success dict.
GeneralResult(answer) ==
    [answer |-> answer, citations |-> <<>>, retrieval_score |-> 0,
     chunks_used |-> 0, fallback |-> TRUE, answer_type |-> "GENERAL_AI"]

ErrorResultLabelledGeneral ==
    [answer |-> APOLOGY, citations |-> <<>>, retrieval_score |-> 0,
     chunks_used |-> 0, fallback |-> TRUE, answer_type |-> "GENERAL_AI"]

\* _openai_fallback, the dict built in its except clause.
ErrorResult ==
    [answer |-> APOLOGY, citations |-> <<>>, retrieval_score |-> 0,
     chunks_used |-> 0, fallback |-> TRUE, answer_type |-> "ERROR"]

Logged(name, ok) == Append(calls, <<name, IF ok THEN "ok" ELSE "fail">>)

\* ------------------------------- answer(): generate_answer_with_fallback

Settings == [confidence_threshold : ConfidenceThresholds, score_threshold : ScoreThresholds]

Init ==
    /\ pc = "classify"
    /\ cfg \in Settings
    /\ query \in Queries
    /\ classification = None
    /\ top_n = None
    /\ search_results = <<>>
    /\ retrieved_chunks = <<>>
    /\ model_scores = None
    /\ reranked_chunks = <<>>
    /\ citations = <<>>
    /\ result = None
    /\ calls = <<>>
    /\ IngestIdle
    /\ ProcessIdle
    /\ UpsertIdle
    /\ ChunkerIdle
    /\ BookIdle
    /\ PersonalizeIdle

\* classifier.classify(query) and the routing on its answer.
ClassifyQuery ==
    /\ pc = "classify"
    /\ \E reply \in {None} \cup {Some(r) : r \in ClassifierReplies} :
          /\ calls' = Logged("classify", reply # None)
          /\ classification' = Some(Classify(reply))
          /\ pc' = Route(Classify(reply))
    /\ UNCHANGED <<upsert_vars, chunker_vars, ingest_vars, process_vars, book_vars, personalize_vars>>
    /\ UNCHANGED <<cfg, query, top_n, search_results, retrieved_chunks, model_scores,
                   reranked_chunks, citations, result>>

\* retrieve's guard on an empty query: [] comes back and generate_answer
\* returns _fallback_response(), which the caller turns into the fallback.
RetrieveEmptyQuery ==
    /\ pc = "retrieve"
    /\ IsBlank(query)
    /\ pc' = AfterGenerateAnswer(FallbackResponse)
    /\ result' = ResultAfterGenerateAnswer(FallbackResponse)
    /\ UNCHANGED <<upsert_vars, chunker_vars, ingest_vars, process_vars, book_vars, personalize_vars>>
    /\ UNCHANGED <<cfg, query, classification, top_n, search_results, retrieved_chunks, model_scores,
                   reranked_chunks, citations, calls>>

\* embedder.embed_text(query) inside retrieve.
EmbedQuery ==
    /\ pc = "retrieve"
    /\ ~IsBlank(query)
    /\ \E ok \in BOOLEAN :
          /\ calls' = Logged("embed", ok)
          /\ pc' = IF ok THEN "search" ELSE OnPipelineException
    /\ UNCHANGED <<upsert_vars, chunker_vars, ingest_vars, process_vars, book_vars, personalize_vars>>
    /\ UNCHANGED <<cfg, query, classification, top_n, search_results, retrieved_chunks, model_scores,
                   reranked_chunks, citations, result>>

\* search_vectors raises: retrieve and generate_answer re-raise.
SearchFails ==
    /\ pc = "search"
    /\ calls' = Logged("search", FALSE)
    /\ pc' = OnPipelineException
    /\ UNCHANGED <<upsert_vars, chunker_vars, ingest_vars, process_vars, book_vars, personalize_vars>>
    /\ UNCHANGED <<cfg, query, classification, top_n, search_results, retrieved_chunks, model_scores,
                   reranked_chunks, citations, result>>

\* search_vectors returns; retrieve formats the chunks; generate_answer
\* returns the fallback response when there are none.
SearchIndex ==
    /\ pc = "search"
    /\ \E results \in SearchOutcomes(RETRIEVE_TOP_K, cfg.score_threshold) :
          /\ search_results' = results
          /\ retrieved_chunks' = FormatChunks(results)
          /\ IF FormatChunks(results) = <<>>
             THEN /\ pc' = AfterGenerateAnswer(FallbackResponse)
                  /\ result' = ResultAfterGenerateAnswer(FallbackResponse)
             ELSE /\ pc' = "rerank"
                  /\ result' = result
    /\ calls' = Logged("search", TRUE)
    /\ UNCHANGED <<upsert_vars, chunker_vars, ingest_vars, process_vars, book_vars, personalize_vars>>
    /\ UNCHANGED <<cfg, query, classification, top_n, model_scores, reranked_chunks, citations>>

\* reranker.rerank(query, retrieved_chunks, top_n=5), then the empty check
\* and the confidence check of generate_answer.
RerankChunks ==
    /\ pc = "rerank"
    /\ top_n' = Some(RERANK_CALL_TOP_N)
    /\ \E predicted \in PredictOutcomes(retrieved_chunks) :
          LET reranked == Rerank(query, retrieved_chunks, Some(RERANK_CALL_TOP_N), predicted) IN
          /\ model_scores' = predicted
          /\ reranked_chunks' = reranked
          /\ calls' = Logged("rerank", predicted # None)
          /\ IF reranked = <<>> \/ BelowConfidence(reranked, cfg.confidence_threshold)
             THEN /\ pc' = AfterGenerateAnswer(FallbackResponse)
                  /\ result' = ResultAfterGenerateAnswer(FallbackResponse)
             ELSE /\ pc' = "generate"
                  /\ result' = result
    /\ UNCHANGED <<upsert_vars, chunker_vars, ingest_vars, process_vars, book_vars, personalize_vars>>
    /\ UNCHANGED <<cfg, query, classification, search_results, retrieved_chunks, citations>>

\* _call_llm raises: generate_answer re-raises.
GroundedGenerationFails ==
    /\ pc = "generate"
    /\ calls' = Logged("generate", FALSE)
    /\ pc' = OnPipelineException
    /\ UNCHANGED <<upsert_vars, chunker_vars, ingest_vars, process_vars, book_vars, personalize_vars>>
    /\ UNCHANGED <<cfg, query, classification, top_n, search_results, retrieved_chunks, model_scores,
                   reranked_chunks, citations, result>>

\* _call_llm returns; citations are extracted; generate_answer returns and
\* generate_answer_with_fallback checks the dict.
GroundedGeneration ==
    /\ pc = "generate"
    /\ \E answer \in GroundedAnswers :
          LET res == GroundedResult(answer, reranked_chunks) IN
          /\ citations' = res.citations
          /\ pc' = AfterGenerateAnswer(res)
          /\ result' = ResultAfterGenerateAnswer(res)
    /\ calls' = Logged("generate", TRUE)
    /\ UNCHANGED <<upsert_vars, chunker_vars, ingest_vars, process_vars, book_vars, personalize_vars>>
    /\ UNCHANGED <<cfg, query, classification, top_n, search_results, retrieved_chunks, model_scores,
                   reranked_chunks>>

\* _openai_fallback: the completion returns or raises.
OpenAIFallback ==
    /\ pc = "general"
    /\ \/ \E answer \in GeneralAnswers :
             /\ result' = Some(GeneralResult(answer))
             /\ calls' = Logged("general", TRUE)
       \/ /\ result' = Some(ErrorResult)
          /\ calls' = Logged("general", FALSE)
    /\ pc' = "done"
    /\ UNCHANGED <<upsert_vars, chunker_vars, ingest_vars, process_vars, book_vars, personalize_vars>>
    /\ UNCHANGED <<cfg, query, classification, top_n, search_results, retrieved_chunks, model_scores,
                   reranked_chunks, citations>>

Next ==
    \/ ClassifyQuery
    \/ RetrieveEmptyQuery
    \/ EmbedQuery
    \/ SearchFails
    \/ SearchIndex
    \/ RerankChunks
    \/ GroundedGenerationFails
    \/ GroundedGeneration
    \/ OpenAIFallback

Spec == Init /\ [][Next]_vars

\* Every step is a call the process is running: it returns or raises.
FairSpec == Spec /\ WF_vars(Next)

\* ------------------------------------------------- POST /chat (routes.chat)

\* A validation of request.query that forgets strip().
ChatRejectsEmptyOnly(q) == IsEmpty(q)

\* chat's validation of request.query: HTTP 400 before the agent is used.
ChatRejects(q) == IsBlank(q)

\* answer() is entered through POST /chat, or called directly as the
\* agent's public method.
InitChat ==
    /\ pc \in {"chat", "classify"}
    /\ cfg \in Settings
    /\ query \in Queries
    /\ classification = None
    /\ top_n = None
    /\ search_results = <<>>
    /\ retrieved_chunks = <<>>
    /\ model_scores = None
    /\ reranked_chunks = <<>>
    /\ citations = <<>>
    /\ result = None
    /\ calls = <<>>
    /\ IngestIdle
    /\ ProcessIdle
    /\ UpsertIdle
    /\ ChunkerIdle
    /\ BookIdle
    /\ PersonalizeIdle

\* chat before the agent: the empty-query check, then the length check and
\* the session lookup, either of which may reject the request too.
ChatValidate ==
    /\ pc = "chat"
    /\ IF ChatRejects(query)
       THEN pc' = "rejected"
       ELSE \E accepted \in BOOLEAN : pc' = IF accepted THEN "classify" ELSE "rejected"
    /\ UNCHANGED <<upsert_vars, chunker_vars, ingest_vars, process_vars, book_vars, personalize_vars>>
    /\ UNCHANGED pipeline_vars

NextChat == ChatValidate \/ Next

SpecChat == InitChat /\ [][NextChat]_vars

\* --------------------------------------------- Reranker.rerank on its own

DefaultSettings ==
    [confidence_threshold |-> DEFAULT_CONFIDENCE_THRESHOLD,
     score_threshold |-> DEFAULT_SCORE_THRESHOLD]

\* Chunk lists a caller may hand to rerank: what retrieve can return.
RetrievedLists == {FormatChunks(r) : r \in SearchOutcomes(RETRIEVE_TOP_K, 0)}

InitRerank ==
    /\ pc = "rerank_call"
    /\ cfg = DefaultSettings
    /\ query \in Queries
    /\ classification = None
    /\ top_n \in {None} \cup {Some(n) : n \in 0..MaxTopN}
    /\ search_results = <<>>
    /\ retrieved_chunks \in RetrievedLists
    /\ model_scores = None
    /\ reranked_chunks = <<>>
    /\ citations = <<>>
    /\ result = None
    /\ calls = <<>>
    /\ IngestIdle
    /\ ProcessIdle
    /\ UpsertIdle
    /\ ChunkerIdle
    /\ BookIdle
    /\ PersonalizeIdle

\* rerank returns from one of its two guards, before the model is used.
RerankGuarded ==
    /\ pc = "rerank_call"
    /\ ~RerankCallsModel(query, retrieved_chunks)
    /\ reranked_chunks' = Rerank(query, retrieved_chunks, top_n, None)
    /\ pc' = "rerank_done"
    /\ UNCHANGED <<upsert_vars, chunker_vars, ingest_vars, process_vars, book_vars, personalize_vars>>
    /\ UNCHANGED <<cfg, query, classification, top_n, search_results, retrieved_chunks,
                   model_scores, citations, result, calls>>

\* rerank runs the model, which returns scores or raises.
RerankScored ==
    /\ pc = "rerank_call"
    /\ RerankCallsModel(query, retrieved_chunks)
    /\ \E predicted \in PredictOutcomes(retrieved_chunks) :
          /\ model_scores' = predicted
          /\ reranked_chunks' = Rerank(query, retrieved_chunks, top_n, predicted)
          /\ calls' = Logged("rerank", predicted # None)
    /\ pc' = "rerank_done"
    /\ UNCHANGED <<upsert_vars, chunker_vars, ingest_vars, process_vars, book_vars, personalize_vars>>
    /\ UNCHANGED <<cfg, query, classification, top_n, search_results, retrieved_chunks,
                   citations, result>>

NextRerank == RerankGuarded \/ RerankScored

SpecRerank == InitRerank /\ [][NextRerank]_vars

\* ------------------------------------------ Retriever.retrieve on its own

InitRetrieve ==
    /\ pc = "retrieve_call"
    /\ cfg \in Settings
    /\ query \in Queries
    /\ classification = None
    /\ top_n = None
    /\ search_results = <<>>
    /\ retrieved_chunks = <<>>
    /\ model_scores = None
    /\ reranked_chunks = <<>>
    /\ citations = <<>>
    /\ result = None
    /\ calls = <<>>
    /\ IngestIdle
    /\ ProcessIdle
    /\ UpsertIdle
    /\ ChunkerIdle
    /\ BookIdle
    /\ PersonalizeIdle

\* An except clause that logs and returns what it has (nothing).
RetrieveSwallowsException == "retrieve_done"

\* retrieve's except clause: log, then raise.
OnRetrieveException == "retrieve_raised"

\* The guard on an empty query.
RetrieveGuarded ==
    /\ pc = "retrieve_call"
    /\ IsBlank(query)
    /\ retrieved_chunks' = <<>>
    /\ pc' = "retrieve_done"
    /\ UNCHANGED <<upsert_vars, chunker_vars, ingest_vars, process_vars, book_vars, personalize_vars>>
    /\ UNCHANGED <<cfg, query, classification, top_n, search_results, model_scores,
                   reranked_chunks, citations, result, calls>>

\* embed_text returns or raises (retrieve re-raises).
RetrieveEmbeds ==
    /\ pc = "retrieve_call"
    /\ ~IsBlank(query)
    /\ \E ok \in BOOLEAN :
          /\ calls' = Logged("embed", ok)
          /\ pc' = IF ok THEN "retrieve_search" ELSE OnRetrieveException
    /\ UNCHANGED <<upsert_vars, chunker_vars, ingest_vars, process_vars, book_vars, personalize_vars>>
    /\ UNCHANGED <<cfg, query, classification, top_n, search_results, retrieved_chunks,
                   model_scores, reranked_chunks, citations, result>>

\* search_vectors raises (retrieve re-raises).
RetrieveSearchFails ==
    /\ pc = "retrieve_search"
    /\ calls' = Logged("search", FALSE)
    /\ pc' = OnRetrieveException
    /\ UNCHANGED <<upsert_vars, chunker_vars, ingest_vars, process_vars, book_vars, personalize_vars>>
    /\ UNCHANGED <<cfg, query, classification, top_n, search_results, retrieved_chunks,
                   model_scores, reranked_chunks, citations, result>>

\* search_vectors returns and retrieve formats the chunks.
RetrieveSearches ==
    /\ pc = "retrieve_search"
    /\ \E results \in SearchOutcomes(RETRIEVE_TOP_K, cfg.score_threshold) :
          /\ search_results' = results
          /\ retrieved_chunks' = FormatChunks(results)
    /\ calls' = Logged("search", TRUE)
    /\ pc' = "retrieve_done"
    /\ UNCHANGED <<upsert_vars, chunker_vars, ingest_vars, process_vars, book_vars, personalize_vars>>
    /\ UNCHANGED <<cfg, query, classification, top_n, model_scores, reranked_chunks,
                   citations, result>>

NextRetrieve ==
    \/ RetrieveGuarded
    \/ RetrieveEmbeds
    \/ RetrieveSearchFails
    \/ RetrieveSearches

SpecRetrieve == InitRetrieve /\ [][NextRetrieve]_vars

\* ------------------------------------ _extract_citations on its own

\* Chunk dicts with each key the function reads present or missing.
CitedChunks ==
    [id : {"c"}, score : {8}, rerank_score : {None},
     chapter_title : {None, Some("A"), Some("B")},
     section_name : {None, Some(""), Some("1.1")},
     paragraph_index : {None, Some(0)}]

InitCitations ==
    /\ pc = "cite_call"
    /\ cfg = DefaultSettings
    /\ query = "text"
    /\ classification = None
    /\ top_n = None
    /\ search_results = <<>>
    /\ retrieved_chunks = <<>>
    /\ model_scores = None
    /\ reranked_chunks \in SeqsUpTo(CitedChunks, MaxCited)
    /\ citations = <<>>
    /\ result = None
    /\ calls = <<>>
    /\ IngestIdle
    /\ ProcessIdle
    /\ UpsertIdle
    /\ ChunkerIdle
    /\ BookIdle
    /\ PersonalizeIdle

ExtractCitationsCall ==
    /\ pc = "cite_call"
    /\ citations' = ExtractCitations(reranked_chunks)
    /\ pc' = "cite_done"
    /\ UNCHANGED <<upsert_vars, chunker_vars, ingest_vars, process_vars, book_vars, personalize_vars>>
    /\ UNCHANGED <<cfg, query, classification, top_n, search_results, retrieved_chunks,
                   model_scores, reranked_chunks, result, calls>>

NextCitations == ExtractCitationsCall

SpecCitations == InitCitations /\ [][NextCitations]_vars

\* ------------------------------- db/qdrant_client.batch_upsert_with_retry

\* retry_delay values tried, in seconds (the default is 1.0).
RetryDelays == {1, 2}

\* points[batch_idx : batch_idx + batch_size]
Batch(pts, idx, size) == SubSeq(pts, idx + 1, Min(idx + size, Len(pts)))
\* (batch_idx // batch_size) + 1
BatchNum(idx, size) == (idx \div size) + 1

\* What the caller gets: the returned count, or the exception that
\* upsert_points raised, re-raised as it is (it holds no count).
ReturnedCount(n) == [kind |-> "returned", count |-> Some(n)]
ReraisedException == [kind |-> "raised", count |-> None]

\* A retry test that is off by one.
RetryUpToBound(a, m) == a <= m

\* "if attempt < max_retries": sleep and go round again, else re-raise.
MayRetry(a, m) == a < m

\* time.sleep(retry_delay * attempt)
RetryWait(delay, a) == delay * a

InitUpsert ==
    /\ pc = "upsert_loop"
    /\ cfg = DefaultSettings
    /\ query = "text"
    /\ classification = None
    /\ top_n = None
    /\ search_results = <<>>
    /\ retrieved_chunks = <<>>
    /\ model_scores = None
    /\ reranked_chunks = <<>>
    /\ citations = <<>>
    /\ result = None
    /\ calls = <<>>
    /\ IngestIdle
    /\ ProcessIdle
    /\ points \in {[i \in 1..n |-> i] : n \in 0..MaxPoints}
    /\ batch_size \in 1..MaxBatchSize
    /\ max_retries \in 0..MaxRetries
    /\ retry_delay \in RetryDelays
    /\ batch_idx = 0
    /\ attempt = 0
    /\ total_upserted = 0
    /\ collection = {}
    /\ upsert_log = <<>>
    /\ sleeps = <<>>
    /\ upsert_outcome = None
    /\ ChunkerIdle
    /\ BookIdle
    /\ PersonalizeIdle

\* The outer for statement takes the next batch and the inner for statement
\* its first attempt; with max_retries = 0 the inner range is empty and the
\* outer loop goes on to the batch after.
UpsertNextBatch ==
    /\ pc = "upsert_loop"
    /\ batch_idx < Len(points)
    /\ IF max_retries >= 1
       THEN /\ attempt' = 1
            /\ pc' = "upsert_try"
            /\ batch_idx' = batch_idx
       ELSE /\ attempt' = attempt
            /\ pc' = "upsert_loop"
            /\ batch_idx' = batch_idx + batch_size
    /\ UNCHANGED <<points, batch_size, max_retries, retry_delay, total_upserted,
                   collection, upsert_log, sleeps, upsert_outcome>>
    /\ UNCHANGED <<pipeline_vars, chunker_vars, ingest_vars, process_vars, book_vars, personalize_vars>>

\* The outer range is exhausted: return total_upserted.
UpsertReturns ==
    /\ pc = "upsert_loop"
    /\ batch_idx >= Len(points)
    /\ upsert_outcome' = Some(ReturnedCount(total_upserted))
    /\ pc' = "upsert_done"
    /\ UNCHANGED <<points, batch_size, max_retries, retry_delay, batch_idx, attempt,
                   total_upserted, collection, upsert_log, sleeps>>
    /\ UNCHANGED <<pipeline_vars, chunker_vars, ingest_vars, process_vars, book_vars, personalize_vars>>

\* upsert_points returns: count the batch and break to the next one.
UpsertAttemptSucceeds ==
    /\ pc = "upsert_try"
    /\ LET batch == Batch(points, batch_idx, batch_size) IN
          /\ collection' = collection \cup {batch[i] : i \in 1..Len(batch)}
          /\ total_upserted' = total_upserted + Len(batch)
    /\ upsert_log' = Append(upsert_log, <<BatchNum(batch_idx, batch_size), "ok">>)
    /\ batch_idx' = batch_idx + batch_size
    /\ pc' = "upsert_loop"
    /\ UNCHANGED <<points, batch_size, max_retries, retry_delay, attempt, sleeps,
                   upsert_outcome>>
    /\ UNCHANGED <<pipeline_vars, chunker_vars, ingest_vars, process_vars, book_vars, personalize_vars>>

\* upsert_points raises: sleep and take the next attempt of the inner
\* range (or leave the range when it is exhausted), else re-raise.
UpsertAttemptFails ==
    /\ pc = "upsert_try"
    /\ upsert_log' = Append(upsert_log, <<BatchNum(batch_idx, batch_size), "fail">>)
    /\ IF MayRetry(attempt, max_retries)
       THEN /\ sleeps' = Append(sleeps, <<BatchNum(batch_idx, batch_size),
                                          RetryWait(retry_delay, attempt)>>)
            /\ upsert_outcome' = upsert_outcome
            /\ IF attempt + 1 <= max_retries
               THEN /\ attempt' = attempt + 1
                    /\ batch_idx' = batch_idx
                    /\ pc' = "upsert_try"
               ELSE /\ attempt' = attempt
                    /\ batch_idx' = batch_idx + batch_size
                    /\ pc' = "upsert_loop"
       ELSE /\ upsert_outcome' = Some(ReraisedException)
            /\ pc' = "upsert_raised"
            /\ UNCHANGED <<sleeps, attempt, batch_idx>>
    /\ UNCHANGED <<points, batch_size, max_retries, retry_delay, total_upserted, collection>>
    /\ UNCHANGED <<pipeline_vars, chunker_vars, ingest_vars, process_vars, book_vars, personalize_vars>>

NextUpsert ==
    \/ UpsertNextBatch
    \/ UpsertReturns
    \/ UpsertAttemptSucceeds
    \/ UpsertAttemptFails

SpecUpsert == InitUpsert /\ [][NextUpsert]_vars

\* ------------------------------------------------------- rag/chunker.py
\*
\* A text is the sequence of the token counts of its sentences, as
\* _split_sentences and encoding.encode give them.  A piece is a run of
\* tokens of one sentence: the whole sentence, or a fragment cut out of it
\* by _split_long_sentence.  The token count of a chunk is the sum over its
\* pieces.

\* Configurations the validators let through, scaled down; chunk_overlap
\* may equal or exceed chunk_size.
ChunkSizes == 2..MaxChunkSize
ChunkOverlaps == 0..MaxChunkOverlap

\* Texts: no sentence at all (empty or whitespace-only text) up to
\* MaxSentences sentences.
Texts == SeqsUpTo(1..MaxSentenceTokens, MaxSentences)

\* len(self.encoding.encode(sentence))
PieceTokens(p) == p.to - p.from + 1

RECURSIVE SumTokens(_)
\* sum(len(encode(s)) for s in current_chunk)
SumTokens(ps) == IF ps = <<>> THEN 0 ELSE PieceTokens(ps[1]) + SumTokens(Tail(ps))

\* _split_sentences: the sentences of the text, in order.
SplitSentences(lens) == [k \in 1..Len(lens) |-> [sent |-> k, from |-> 1, to |-> lens[k]]]

\* _create_chunk
CreateChunk(ps, index) == [sentences |-> ps, token_count |-> SumTokens(ps), index |-> index]

RECURSIVE OverlapCountLoose(_, _, _)
\* Takes sentences for as long as the budget is not used up yet.
OverlapCountLoose(ps, i, left) ==
    IF i = 0 \/ left <= 0 THEN 0
    ELSE 1 + OverlapCountLoose(ps, i - 1, left - PieceTokens(ps[i]))

RECURSIVE OverlapCount(_, _, _)
\* The loop of _get_overlap_sentences over reversed(sentences): how many
\* trailing sentences fit, with `left` tokens of the budget remaining.
OverlapCount(ps, i, left) ==
    IF i = 0 THEN 0
    ELSE IF PieceTokens(ps[i]) <= left
         THEN 1 + OverlapCount(ps, i - 1, left - PieceTokens(ps[i]))
         ELSE 0

\* An overlap that may overshoot its budget by one sentence.
GetOverlapOvershoots(ps, target) ==
    SubSeq(ps, Len(ps) - OverlapCountLoose(ps, Len(ps), target) + 1, Len(ps))

\* An overlap taken from the head of the chunk instead of its tail.
GetOverlapFromHead(ps, target) == SubSeq(ps, 1, OverlapCount(ps, Len(ps), target))

\* _get_overlap_sentences
GetOverlapSentences(ps, target) ==
    SubSeq(ps, Len(ps) - OverlapCount(ps, Len(ps), target) + 1, Len(ps))

RECURSIVE RangeFrom(_, _, _)
\* range(i, stop, step) for a positive step
RangeFrom(i, stop, step) ==
    IF i >= stop THEN <<>> ELSE <<i>> \o RangeFrom(i + step, stop, step)

\* range(0, len(tokens), chunk_size - chunk_overlap) raises ValueError when
\* the step is 0.
SplitRaises(size, overlap) == size - overlap = 0

\* A split whose window advances by chunk_overlap tokens.
SplitStepsByOverlap(s, size, overlap) ==
    LET n == PieceTokens(s)
        starts == IF overlap > 0 THEN RangeFrom(0, n, overlap) ELSE <<>>
    IN [j \in 1..Len(starts) |->
           [sent |-> s.sent, from |-> starts[j] + 1, to |-> Min(starts[j] + size, n)]]

\* _split_long_sentence: tokens[i : i + chunk_size] for each i of the range;
\* a negative step gives an empty range and no fragment.
SplitLongSentence(s, size, overlap) ==
    LET n == PieceTokens(s)
        starts == IF size - overlap > 0 THEN RangeFrom(0, n, size - overlap) ELSE <<>>
    IN [j \in 1..Len(starts) |->
           [sent |-> s.sent, from |-> starts[j] + 1, to |-> Min(starts[j] + size, n)]]

RECURSIVE AppendEach(_, _)
\* for sub_chunk in sub_chunks: chunks.append(_create_chunk([sub_chunk], chunk_index))
AppendEach(out, frags) ==
    IF frags = <<>> THEN out
    ELSE AppendEach(Append(out, CreateChunk(<<frags[1]>>, Len(out))), Tail(frags))

RECURSIVE ChunkLoop(_, _, _, _, _, _)
\* The for loop of chunk_text from sentence k on, and the final flush.
\* out is chunks, cur is current_chunk; chunk_index is len(chunks) throughout
\* and current_tokens is the token sum of current_chunk.
ChunkLoop(ps, size, overlap, k, out, cur) ==
    IF k > Len(ps)
    THEN [raised |-> FALSE,
          chunks |-> IF cur # <<>> THEN Append(out, CreateChunk(cur, Len(out))) ELSE out]
    ELSE LET s == ps[k]
             flushed == IF cur # <<>> THEN Append(out, CreateChunk(cur, Len(out))) ELSE out
         IN IF PieceTokens(s) > size
            THEN IF SplitRaises(size, overlap)
                 THEN [raised |-> TRUE, chunks |-> <<>>]
                 ELSE ChunkLoop(ps, size, overlap, k + 1,
                                AppendEach(flushed, SplitLongSentence(s, size, overlap)), <<>>)
            ELSE IF SumTokens(cur) + PieceTokens(s) > size
                 THEN ChunkLoop(ps, size, overlap, k + 1,
                                Append(out, CreateChunk(cur, Len(out))),
                                GetOverlapSentences(cur, overlap) \o <<s>>)
                 ELSE ChunkLoop(ps, size, overlap, k + 1, out, Append(cur, s))

\* Chunker.chunk_text
ChunkText(lens, size, overlap) ==
    IF lens = <<>> THEN [raised |-> FALSE, chunks |-> <<>>]
    ELSE ChunkLoop(SplitSentences(lens), size, overlap, 1, <<>>, <<>>)

InitChunker ==
    /\ pc = "chunk_call"
    /\ cfg = DefaultSettings
    /\ query = "text"
    /\ classification = None
    /\ top_n = None
    /\ search_results = <<>>
    /\ retrieved_chunks = <<>>
    /\ model_scores = None
    /\ reranked_chunks = <<>>
    /\ citations = <<>>
    /\ result = None
    /\ calls = <<>>
    /\ IngestIdle
    /\ ProcessIdle
    /\ UpsertIdle
    /\ chunk_size \in ChunkSizes
    /\ chunk_overlap \in ChunkOverlaps
    /\ text_sentences \in Texts
    /\ text_chunks = <<>>
    /\ BookIdle
    /\ PersonalizeIdle

\* chunk_text returns its chunks or lets the ValueError of range() through.
ChunkTextCall ==
    /\ pc = "chunk_call"
    /\ LET r == ChunkText(text_sentences, chunk_size, chunk_overlap) IN
          /\ text_chunks' = r.chunks
          /\ pc' = IF r.raised THEN "chunk_raised" ELSE "chunk_done"
    /\ UNCHANGED <<chunk_size, chunk_overlap, text_sentences>>
    /\ UNCHANGED <<pipeline_vars, upsert_vars, ingest_vars, process_vars, book_vars, personalize_vars>>

NextChunker == ChunkTextCall

SpecChunker == InitChunker /\ [][NextChunker]_vars

\* ------------------- chunk_text with the default settings, one paragraph

RECURSIVE SplitsOf(_, _)
\* The ways to divide total tokens into at most n sentences; sentence
\* lengths are multiples of 10 tokens.
SplitsOf(total, n) ==
    {<<total>>} \cup
    (IF n > 1
     THEN UNION {{<<10 * k>> \o rest : rest \in SplitsOf(total - 10 * k, n - 1)} :
                   k \in 1..((total \div 10) - 1)}
     ELSE {})

\* A Chunker built from the default settings is given a paragraph of 600
\* tokens in all.
InitParagraph ==
    /\ pc = "chunk_call"
    /\ cfg = DefaultSettings
    /\ query = "text"
    /\ classification = None
    /\ top_n = None
    /\ search_results = <<>>
    /\ retrieved_chunks = <<>>
    /\ model_scores = None
    /\ reranked_chunks = <<>>
    /\ citations = <<>>
    /\ result = None
    /\ calls = <<>>
    /\ IngestIdle
    /\ ProcessIdle
    /\ UpsertIdle
    /\ chunk_size = DEFAULT_CHUNK_SIZE
    /\ chunk_overlap = DEFAULT_CHUNK_OVERLAP
    /\ text_sentences \in SplitsOf(600, MaxParagraphSentences)
    /\ text_chunks = <<>>
    /\ BookIdle
    /\ PersonalizeIdle

SpecParagraph == InitParagraph /\ [][NextChunker]_vars

\* ------------------------------------------- POST /admin/load_book
\*
\* The book file is the same on every call: process_book cuts it into the
\* segments 1..MaxSegments of chapter 1.  uuid4 ids are <<pass, segment>>.
\* batch_upsert_with_retry is taken as a whole: it commits a prefix of the
\* points and raises, or commits them all and returns (one point stands
\* for one batch).

COLLECTION_OPENAI == "physical_ai_robotics_book"
COLLECTION_LOCAL == "physical_ai_robotics_book_local"
CollectionNames == {COLLECTION_OPENAI, COLLECTION_LOCAL}

\* Values of settings.EMBEDDING_MODEL that Embedder accepts; a request's
\* embedding_model other than "openai" counts as "local".
EmbeddingModels == {"openai", "local"}

\* Backends whose vectors have one and the same length.
SameDimensions(model) == 1536

\* Embedder.dimensions
Dimensions(model) == IF model = "openai" THEN 1536 ELSE 384

\* COLLECTION_OPENAI if <model> == "openai" else COLLECTION_LOCAL
CollectionFor(model) == IF model = "openai" THEN COLLECTION_OPENAI ELSE COLLECTION_LOCAL

\* init_system creates the collection of the configured backend with that
\* backend's vector size.
CreatedCollection(model) == [exists |-> TRUE, size |-> Dimensions(model), points |-> {}]
NoCollection(model) == [exists |-> FALSE, size |-> Dimensions(model), points |-> {}]

\* client.upsert: the index takes vectors only into a collection that
\* exists, and only vectors of the size it was created with.
IndexAccepts(index, name, dim) == index[name].exists /\ index[name].size = dim

BookSegments == 1..MaxSegments

\* The point load_book builds for a segment from the embedder's vector.
PointOf(pass, segment, model) ==
    [id |-> <<pass, segment>>, segment |-> segment, backend |-> model,
     dim |-> Dimensions(model)]

\* The paragraph row load_book builds for a point.
ParagraphOf(point) ==
    [embedding_id |-> point.id, chapter_number |-> 1, segment |-> point.segment]

\* A deployment: the collection of the configured backend exists; the other
\* one exists if init_system once ran with the other setting.
InitLoadBook ==
    /\ pc = "lb_idle"
    /\ cfg = DefaultSettings
    /\ query = "text"
    /\ classification = None
    /\ top_n = None
    /\ search_results = <<>>
    /\ retrieved_chunks = <<>>
    /\ model_scores = None
    /\ reranked_chunks = <<>>
    /\ citations = <<>>
    /\ result = None
    /\ calls = <<>>
    /\ UpsertIdle
    /\ ChunkerIdle
    /\ ProcessIdle
    /\ embedding_model \in EmbeddingModels
    /\ request_model = "openai"
    /\ \E other \in BOOLEAN :
          qdrant = [name \in CollectionNames |->
                      LET model == IF name = COLLECTION_OPENAI THEN "openai" ELSE "local" IN
                      IF model = embedding_model \/ other
                      THEN CreatedCollection(model) ELSE NoCollection(model)]
    /\ chapter_rows = {}
    /\ paragraph_rows = {}
    /\ passes = 0
    /\ qdrant_points = <<>>
    /\ load_status = None
    /\ BookIdle
    /\ PersonalizeIdle

\* A request arrives; the file is missing (HTTP 400) or is read and chunked.
LoadBookStart ==
    /\ pc = "lb_idle"
    /\ passes < MaxPasses
    /\ passes' = passes + 1
    /\ request_model' \in EmbeddingModels
    /\ qdrant_points' = <<>>
    /\ \E found \in BOOLEAN :
          /\ load_status' = IF found THEN None ELSE Some("http_400")
          /\ pc' = IF found THEN "lb_chapters" ELSE "lb_idle"
    /\ UNCHANGED <<embedding_model, qdrant, chapter_rows, paragraph_rows>>
    /\ UNCHANGED <<pipeline_vars, upsert_vars, chunker_vars, process_vars, book_vars, personalize_vars>>

\* insert_chapters: chapters already stored are skipped; commit.
LoadBookInsertChapters ==
    /\ pc = "lb_chapters"
    /\ \E ok \in BOOLEAN :
          /\ chapter_rows' = IF ok THEN chapter_rows \cup {1} ELSE chapter_rows
          /\ load_status' = IF ok THEN load_status ELSE Some("http_500")
          /\ pc' = IF ok THEN "lb_embed" ELSE "lb_idle"
    /\ UNCHANGED <<embedding_model, request_model, qdrant, paragraph_rows, passes,
                   qdrant_points>>
    /\ UNCHANGED <<pipeline_vars, upsert_vars, chunker_vars, process_vars, book_vars, personalize_vars>>

\* get_embedder().embed_batch, then the loop that builds the points: the
\* vectors come from the backend of settings.EMBEDDING_MODEL.
LoadBookEmbed ==
    /\ pc = "lb_embed"
    /\ \E ok \in BOOLEAN :
          /\ qdrant_points' =
                IF ok THEN [i \in BookSegments |-> PointOf(passes, i, embedding_model)]
                ELSE qdrant_points
          /\ load_status' = IF ok THEN load_status ELSE Some("http_500")
          /\ pc' = IF ok THEN "lb_upsert" ELSE "lb_idle"
    /\ UNCHANGED <<embedding_model, request_model, qdrant, chapter_rows, paragraph_rows,
                   passes>>
    /\ UNCHANGED <<pipeline_vars, upsert_vars, chunker_vars, process_vars, book_vars, personalize_vars>>

\* batch_upsert_with_retry into the collection request.embedding_model
\* names: k points are committed before it returns or raises.
LoadBookUpsert ==
    /\ pc = "lb_upsert"
    /\ LET target == CollectionFor(request_model) IN
       \E k \in 0..Len(qdrant_points) :
          /\ k > 0 => IndexAccepts(qdrant, target, qdrant_points[1].dim)
          /\ qdrant' = [qdrant EXCEPT ![target].points =
                            @ \cup {qdrant_points[i] : i \in 1..k}]
          /\ load_status' = IF k = Len(qdrant_points) THEN load_status ELSE Some("http_500")
          /\ pc' = IF k = Len(qdrant_points) THEN "lb_paragraphs" ELSE "lb_idle"
    /\ UNCHANGED <<embedding_model, request_model, chapter_rows, paragraph_rows, passes,
                   qdrant_points>>
    /\ UNCHANGED <<pipeline_vars, upsert_vars, chunker_vars, process_vars, book_vars, personalize_vars>>

\* insert_paragraphs: all rows are committed, or none (rollback).
LoadBookInsertParagraphs ==
    /\ pc = "lb_paragraphs"
    /\ \E ok \in BOOLEAN :
          /\ paragraph_rows' =
                IF ok THEN paragraph_rows \cup
                           {ParagraphOf(qdrant_points[i]) : i \in 1..Len(qdrant_points)}
                ELSE paragraph_rows
          /\ load_status' = IF ok THEN Some("success") ELSE Some("http_500")
    /\ pc' = "lb_idle"
    /\ UNCHANGED <<embedding_model, request_model, qdrant, chapter_rows, passes,
                   qdrant_points>>
    /\ UNCHANGED <<pipeline_vars, upsert_vars, chunker_vars, process_vars, book_vars, personalize_vars>>

NextLoadBook ==
    \/ LoadBookStart
    \/ LoadBookInsertChapters
    \/ LoadBookEmbed
    \/ LoadBookUpsert
    \/ LoadBookInsertParagraphs

SpecLoadBook == InitLoadBook /\ [][NextLoadBook]_vars

\* ------------------------------------------- module-level handles
\*
\* Requests of one process obtain their handles in any order.  The route
\* handlers are coroutines without an await around these calls, so each
\* get_* call runs to its end before another one starts.  An instance is
\* named by the ordinal of its construction among those of its kind.

InitProcess ==
    /\ pc = "serving"
    /\ cfg = DefaultSettings
    /\ query = "text"
    /\ classification = None
    /\ top_n = None
    /\ search_results = <<>>
    /\ retrieved_chunks = <<>>
    /\ model_scores = None
    /\ reranked_chunks = <<>>
    /\ citations = <<>>
    /\ result = None
    /\ calls = <<>>
    /\ UpsertIdle
    /\ ChunkerIdle
    /\ IngestIdle
    /\ embedder_instance = None
    /\ classifier_instance = None
    /\ retriever_instance = None
    /\ agent_instance = None
    /\ built = [embedder |-> 0, qdrant |-> 0, llm |-> 0]
    /\ handles = <<>>
    /\ BookIdle
    /\ PersonalizeIdle

\* get_embedder() (load_book, dependencies): Embedder() on first use.
GetEmbedder ==
    /\ pc = "serving"
    /\ Len(handles) < MaxHandleUses
    /\ IF embedder_instance = None
       THEN /\ built' = [built EXCEPT !.embedder = @ + 1]
            /\ embedder_instance' = Some(built.embedder + 1)
       ELSE UNCHANGED <<built, embedder_instance>>
    /\ handles' = Append(handles, <<"embedder", embedder_instance'[1]>>)
    /\ UNCHANGED <<classifier_instance, retriever_instance, agent_instance, pc>>
    /\ UNCHANGED <<pipeline_vars, upsert_vars, chunker_vars, ingest_vars, book_vars, personalize_vars>>

\* get_rag_agent() (chat): RAGAgent() on first use builds an OpenAI client
\* and calls get_retriever(), whose Retriever() calls get_embedder(); the
\* agent's client is then used for generation.
GetRagAgent ==
    /\ pc = "serving"
    /\ Len(handles) < MaxHandleUses
    /\ IF agent_instance = None
       THEN LET newEmbedder == retriever_instance = None /\ embedder_instance = None IN
            /\ built' = [built EXCEPT !.llm = @ + 1,
                                      !.embedder = IF newEmbedder THEN @ + 1 ELSE @]
            /\ agent_instance' = Some(built.llm + 1)
            /\ retriever_instance' = Some(1)
            /\ embedder_instance' =
                  IF newEmbedder THEN Some(built.embedder + 1) ELSE embedder_instance
       ELSE UNCHANGED <<built, agent_instance, retriever_instance, embedder_instance>>
    /\ handles' = Append(handles, <<"llm", agent_instance'[1]>>)
    /\ UNCHANGED <<classifier_instance, pc>>
    /\ UNCHANGED <<pipeline_vars, upsert_vars, chunker_vars, ingest_vars, book_vars, personalize_vars>>

\* get_classifier() (generate_answer_with_fallback): QueryClassifier() on
\* first use builds an OpenAI client of its own, used for classification.
GetClassifier ==
    /\ pc = "serving"
    /\ Len(handles) < MaxHandleUses
    /\ IF classifier_instance = None
       THEN /\ built' = [built EXCEPT !.llm = @ + 1]
            /\ classifier_instance' = Some(built.llm + 1)
       ELSE UNCHANGED <<built, classifier_instance>>
    /\ handles' = Append(handles, <<"llm", classifier_instance'[1]>>)
    /\ UNCHANGED <<embedder_instance, retriever_instance, agent_instance, pc>>
    /\ UNCHANGED <<pipeline_vars, upsert_vars, chunker_vars, ingest_vars, book_vars, personalize_vars>>

\* get_qdrant_client() (search_vectors, upsert_points, create_collection):
\* QdrantClient(...) on every call.
GetQdrantClient ==
    /\ pc = "serving"
    /\ Len(handles) < MaxHandleUses
    /\ built' = [built EXCEPT !.qdrant = @ + 1]
    /\ handles' = Append(handles, <<"qdrant", built.qdrant + 1>>)
    /\ UNCHANGED <<embedder_instance, classifier_instance, retriever_instance,
                   agent_instance, pc>>
    /\ UNCHANGED <<pipeline_vars, upsert_vars, chunker_vars, ingest_vars, book_vars, personalize_vars>>

NextProcess ==
    \/ GetEmbedder
    \/ GetRagAgent
    \/ GetClassifier
    \/ GetQdrantClient

SpecProcess == InitProcess /\ [][NextProcess]_vars

\* ------------------------------------------------- chunker.process_book
\*
\* A line of the book is a chapter header ("# Chapter N: Title"), a section
\* header ("## N.M Title") or a content line, which is one sentence of
\* `tokens` tokens, or blank when tokens = 0.

ChapterNumbers == {1, 2}
LineTokens == {0, 3}

BookLines ==
    [kind : {"chapter"}, num : ChapterNumbers]
    \cup {[kind |-> "section", name |-> "1.1 Overview"]}
    \cup [kind : {"text"}, tokens : LineTokens]

\* '\n'.join(content_lines).strip() as the sentences it holds.
ContentSentences(content_lines) == SelectSeq(content_lines, LAMBDA t : t > 0)

\* The metadata loop of _process_chapter_content over the new chunks:
\* len(chapter["chunks"]) is read before the chunks are added.
WithMetadata(new_chunks, chapter, section_name) ==
    [i \in 1..Len(new_chunks) |->
        [sentences |-> new_chunks[i].sentences,
         token_count |-> new_chunks[i].token_count,
         index |-> new_chunks[i].index,
         section_name |-> Get(section_name, ""),
         chapter_number |-> chapter.chapter_number,
         paragraph_index |-> Len(chapter.chunks)]]

\* _process_chapter_content: the chapter dict after the call.
ProcessChapterContent(chapter, content_lines, section_name, size, overlap) ==
    IF ContentSentences(content_lines) = <<>> THEN chapter
    ELSE [chapter EXCEPT !.chunks =
             @ \o WithMetadata(ChunkText(ContentSentences(content_lines), size, overlap).chunks,
                               chapter, section_name)]

InitBook ==
    /\ pc = "book_loop"
    /\ cfg = DefaultSettings
    /\ query = "text"
    /\ classification = None
    /\ top_n = None
    /\ search_results = <<>>
    /\ retrieved_chunks = <<>>
    /\ model_scores = None
    /\ reranked_chunks = <<>>
    /\ citations = <<>>
    /\ result = None
    /\ calls = <<>>
    /\ UpsertIdle
    /\ IngestIdle
    /\ ProcessIdle
    /\ PersonalizeIdle
    /\ chunk_size = MaxChunkSize
    /\ chunk_overlap = 1
    /\ text_sentences = <<>>
    /\ text_chunks = <<>>
    /\ book_lines \in SeqsUpTo(BookLines, MaxBookLines)
    /\ line_no = 1
    /\ current_chapter = None
    /\ current_section = None
    /\ current_content = <<>>
    /\ chapters = <<>>

\* A chapter header: the previous chapter is closed if it has content
\* lines, and a new chapter dict starts.
BookChapterLine ==
    /\ pc = "book_loop"
    /\ line_no <= Len(book_lines)
    /\ book_lines[line_no].kind = "chapter"
    /\ chapters' =
          IF current_chapter # None /\ current_content # <<>>
          THEN Append(chapters, ProcessChapterContent(current_chapter[1], current_content,
                                                      current_section, chunk_size, chunk_overlap))
          ELSE chapters
    /\ current_chapter' = Some([chapter_number |-> book_lines[line_no].num, chunks |-> <<>>])
    /\ current_content' = <<>>
    /\ current_section' = None
    /\ line_no' = line_no + 1
    /\ UNCHANGED <<pc, book_lines>>
    /\ UNCHANGED <<pipeline_vars, upsert_vars, chunker_vars, ingest_vars, process_vars,
                   personalize_vars>>

\* A section header inside a chapter: the content gathered so far is
\* chunked into the chapter and the new section starts.
BookSectionLine ==
    /\ pc = "book_loop"
    /\ line_no <= Len(book_lines)
    /\ book_lines[line_no].kind = "section"
    /\ current_chapter # None
    /\ IF current_content # <<>>
       THEN /\ current_chapter' =
                  Some(ProcessChapterContent(current_chapter[1], current_content,
                                             current_section, chunk_size, chunk_overlap))
            /\ current_content' = <<>>
       ELSE UNCHANGED <<current_chapter, current_content>>
    /\ current_section' = Some(book_lines[line_no].name)
    /\ line_no' = line_no + 1
    /\ UNCHANGED <<pc, book_lines, chapters>>
    /\ UNCHANGED <<pipeline_vars, upsert_vars, chunker_vars, ingest_vars, process_vars,
                   personalize_vars>>

\* A content line inside a chapter is gathered.
BookTextLine ==
    /\ pc = "book_loop"
    /\ line_no <= Len(book_lines)
    /\ book_lines[line_no].kind = "text"
    /\ current_chapter # None
    /\ current_content' = Append(current_content, book_lines[line_no].tokens)
    /\ line_no' = line_no + 1
    /\ UNCHANGED <<pc, book_lines, current_chapter, current_section, chapters>>
    /\ UNCHANGED <<pipeline_vars, upsert_vars, chunker_vars, ingest_vars, process_vars,
                   personalize_vars>>

\* A section header or a content line before the first chapter header
\* matches no branch.
BookSkipLine ==
    /\ pc = "book_loop"
    /\ line_no <= Len(book_lines)
    /\ book_lines[line_no].kind # "chapter"
    /\ current_chapter = None
    /\ line_no' = line_no + 1
    /\ UNCHANGED <<pc, book_lines, current_chapter, current_section, current_content,
                   chapters>>
    /\ UNCHANGED <<pipeline_vars, upsert_vars, chunker_vars, ingest_vars, process_vars,
                   personalize_vars>>

\* After the loop: the final chapter is closed and chapters is returned.
BookReturn ==
    /\ pc = "book_loop"
    /\ line_no > Len(book_lines)
    /\ chapters' =
          IF current_chapter # None /\ current_content # <<>>
          THEN Append(chapters, ProcessChapterContent(current_chapter[1], current_content,
                                                      current_section, chunk_size, chunk_overlap))
          ELSE chapters
    /\ pc' = "book_done"
    /\ UNCHANGED <<book_lines, line_no, current_chapter, current_section, current_content>>
    /\ UNCHANGED <<pipeline_vars, upsert_vars, chunker_vars, ingest_vars, process_vars,
                   personalize_vars>>

NextBook ==
    \/ BookChapterLine
    \/ BookSectionLine
    \/ BookTextLine
    \/ BookSkipLine
    \/ BookReturn

SpecBook == InitBook /\ [][NextBook]_vars

\* ------------------- answer() from rerank on, after a search with many hits
\*
\* The query was classified IN_SCOPE and embedded, and search_vectors
\* returned up to MaxWide hits (top_k is 10), more than rerank keeps.

WideScores == {4, 8}

\* Hit n of the search; the payloads do not matter here.
WideHit(n, score) == [id |-> n, score |-> score, payload |-> PayloadOf("p1")]

WideResults(floor) ==
    UNION {{[i \in 1..n |-> WideHit(i, sc[i])] : sc \in [1..n -> {x \in WideScores : x >= floor}]} :
           n \in 1..Min(RETRIEVE_TOP_K, MaxWide)}

InitWide ==
    /\ pc = "rerank"
    /\ cfg \in Settings
    /\ query = "text"
    /\ classification = Some("IN_SCOPE")
    /\ top_n = None
    /\ search_results \in WideResults(cfg.score_threshold)
    /\ retrieved_chunks = FormatChunks(search_results)
    /\ model_scores = None
    /\ reranked_chunks = <<>>
    /\ citations = <<>>
    /\ result = None
    /\ calls = <<<<"classify", "ok">>, <<"embed", "ok">>, <<"search", "ok">>>>
    /\ UpsertIdle
    /\ ChunkerIdle
    /\ IngestIdle
    /\ ProcessIdle
    /\ BookIdle
    /\ PersonalizeIdle

NextWide ==
    \/ RerankChunks
    \/ GroundedGenerationFails
    \/ GroundedGeneration
    \/ OpenAIFallback

SpecWide == InitWide /\ [][NextWide]_vars

\* ------------------------------------------ routes.personalize_chapter
\*
\* Requests for one (chapter_id, difficulty_level) key, each with its own
\* database session.  The handler is a coroutine whose only await is the
\* call of the personalization agent: what comes before it runs as one
\* step, and so does what comes after it.

Requests == 1..MaxRequests

OriginalContent == [kind |-> "original", by |-> 0]
AdaptedText(r) == [kind |-> "adapted", by |-> r]

\* PersonalizationResponse and the 404 of a chapter without content.
Personalized(text, cached) == [status |-> 200, content |-> text, cached |-> cached]
NotFound == [status |-> 404, content |-> OriginalContent, cached |-> FALSE]

\* session.commit() of a new row: the unique constraint on
\* (chapter_id, difficulty_level) lets it through only when the key has no
\* row yet; otherwise it raises IntegrityError.
CommitAccepts(rows, row) == rows = {}

InitPersonalize ==
    /\ pc = "serving"
    /\ cfg = DefaultSettings
    /\ query = "text"
    /\ classification = None
    /\ top_n = None
    /\ search_results = <<>>
    /\ retrieved_chunks = <<>>
    /\ model_scores = None
    /\ reranked_chunks = <<>>
    /\ citations = <<>>
    /\ result = None
    /\ calls = <<>>
    /\ UpsertIdle
    /\ ChunkerIdle
    /\ IngestIdle
    /\ ProcessIdle
    /\ BookIdle
    /\ req_pc = [r \in Requests |-> "start"]
    /\ cache_rows \in {{}, {[text |-> AdaptedText(0)]}}
    /\ agent_text = [r \in Requests |-> None]
    /\ responses = [r \in Requests |-> None]
    /\ chapter_stored \in BOOLEAN

\* Steps 1 and 2: the cache lookup, then the chapter and its paragraphs,
\* up to the await of the agent.
PersonalizeLookup(r) ==
    /\ req_pc[r] = "start"
    /\ IF cache_rows # {}
       THEN /\ responses' = [responses EXCEPT ![r] =
                    Some(Personalized((CHOOSE row \in cache_rows : TRUE).text, TRUE))]
            /\ req_pc' = [req_pc EXCEPT ![r] = "done"]
       ELSE IF ~chapter_stored
       THEN /\ responses' = [responses EXCEPT ![r] = Some(NotFound)]
            /\ req_pc' = [req_pc EXCEPT ![r] = "done"]
       ELSE /\ responses' = responses
            /\ req_pc' = [req_pc EXCEPT ![r] = "agent"]
    /\ UNCHANGED <<pc, cache_rows, agent_text, chapter_stored>>
    /\ UNCHANGED <<pipeline_vars, upsert_vars, chunker_vars, ingest_vars, process_vars,
                   book_vars>>

\* Steps 3 to 5: personalize_content returns None or the adapted text; the
\* text is added to the cache and committed; an exception of the commit
\* lands in the except clause, which answers with the original content.
PersonalizeAgentReturns(r) ==
    /\ req_pc[r] = "agent"
    /\ \E out \in {None, Some(AdaptedText(r))} :
          /\ agent_text' = [agent_text EXCEPT ![r] = out]
          /\ IF out = None
             THEN /\ cache_rows' = cache_rows
                  /\ responses' = [responses EXCEPT ![r] =
                                      Some(Personalized(OriginalContent, FALSE))]
             ELSE IF CommitAccepts(cache_rows, [text |-> out[1]])
             THEN /\ cache_rows' = {[text |-> out[1]]}
                  /\ responses' = [responses EXCEPT ![r] = Some(Personalized(out[1], FALSE))]
             ELSE /\ cache_rows' = cache_rows
                  /\ responses' = [responses EXCEPT ![r] =
                                      Some(Personalized(OriginalContent, FALSE))]
    /\ req_pc' = [req_pc EXCEPT ![r] = "done"]
    /\ UNCHANGED <<pc, chapter_stored>>
    /\ UNCHANGED <<pipeline_vars, upsert_vars, chunker_vars, ingest_vars, process_vars,
                   book_vars>>

NextPersonalize ==
    \/ \E r \in Requests : PersonalizeLookup(r)
    \/ \E r \in Requests : PersonalizeAgentReturns(r)

SpecPersonalize == InitPersonalize /\ [][NextPersonalize]_vars

\* ------------------------------------------------ properties of answer()

Called(name) == \E i \in 1..Len(calls) : calls[i][1] = name
Failed(name) == \E i \in 1..Len(calls) : calls[i] = <<name, "fail">>
Succeeded(name) == \E i \in 1..Len(calls) : calls[i] = <<name, "ok">>
Count(name) == Cardinality({i \in 1..Len(calls) : calls[i][1] = name})

Returned == pc = "done"
InScope == classification = Some("IN_SCOPE")
OutOfScope == classification = Some("OUT_OF_SCOPE")

\* C1: when retrieval and reranking returned and the first reranked
\* candidate's similarity score is below the configured confidence
\* threshold, the returned dict has fallback = true and an answer_type other
\* than BOOK, whether the later completion returned or raised.
C1_ConfidenceGate ==
    (/\ Returned
     /\ Called("rerank")
     /\ reranked_chunks # <<>>
     /\ reranked_chunks[1].score < cfg.confidence_threshold)
    => /\ result # None
       /\ result[1].fallback
       /\ result[1].answer_type # "BOOK"

C1_Witness ==
    /\ Returned
    /\ Succeeded("rerank")
    /\ reranked_chunks # <<>>
    /\ reranked_chunks[1].score = 6
    /\ cfg.confidence_threshold = DEFAULT_CONFIDENCE_THRESHOLD
    /\ \E i \in 1..Len(reranked_chunks) : reranked_chunks[i].score = 8
    /\ result[1].answer_type = "GENERAL_AI"

GeneralFallbackTaken ==
    /\ Count("general") = 1
    /\ Succeeded("general") =>
          /\ result[1].answer \in GeneralAnswers
          /\ result[1].answer_type = "GENERAL_AI"
          /\ result[1].fallback
          /\ result[1].citations = <<>>

\* C2 as stated: for an IN_SCOPE query, if the embedding call, the index
\* search, the reranking stage or the grounded generation raises, answer()
\* does not raise, calls general-purpose generation exactly once and, when
\* that call succeeds, returns its text as GENERAL_AI with fallback = true
\* and no citations.
C2_AsStated ==
    /\ pc # "raised"
    /\ (/\ Returned
        /\ InScope
        /\ \/ Failed("embed")
           \/ Failed("search")
           \/ Failed("rerank")
           \/ Failed("generate"))
       => GeneralFallbackTaken

\* C2 amended: the same for a failure of the embedding call, the index
\* search or the grounded generation.  (A failure of the relevance model is
\* absorbed inside rerank and takes no fallback by itself.)
C2_PipelineExceptionFallsBack ==
    /\ pc # "raised"
    /\ (/\ Returned
        /\ InScope
        /\ \/ Failed("embed")
           \/ Failed("search")
           \/ Failed("generate"))
       => GeneralFallbackTaken

C2_Witness ==
    /\ Returned
    /\ InScope
    /\ Failed("generate")
    /\ Succeeded("general")
    /\ result[1].answer_type = "GENERAL_AI"

\* C3: the returned dict is the ERROR dict (the fixed apology, no
\* citations, fallback = true) exactly when the general-purpose completion
\* failed, on whichever path it was reached; answer() never raises.
C3_ErrorOnlyFromGeneralFailure ==
    /\ pc # "raised"
    /\ Returned =>
          /\ result # None
          /\ Failed("general") <=> result[1].answer_type = "ERROR"
          /\ result[1].answer_type = "ERROR" =>
                /\ result[1].answer = APOLOGY
                /\ result[1].citations = <<>>
                /\ result[1].fallback

C3_Witness ==
    /\ Returned
    /\ Succeeded("rerank")
    /\ ~Called("generate")
    /\ Failed("general")
    /\ result[1].answer_type = "ERROR"

\* C4: once the query is classified OUT_OF_SCOPE, the log of remote calls
\* holds the classification call followed only by general-purpose
\* generation: no embedding, search or rerank call at any point.
C4_OutOfScopeSkipsRetrieval ==
    OutOfScope =>
        /\ ~Called("embed") /\ ~Called("search") /\ ~Called("rerank")
        /\ \A i \in 2..Len(calls) : calls[i][1] = "general"

C4_Witness ==
    /\ Returned
    /\ OutOfScope
    /\ Len(calls) = 2
    /\ calls[2][1] = "general"

\* C5: whatever each remote call does, answer() ends having returned a dict
\* whose answer_type is BOOK, GENERAL_AI or ERROR, never an exception, and no
\* remote call follows the return.
C5_Terminates ==
    /\ <>[](/\ Returned
            /\ result # None
            /\ result[1].answer_type \in {"BOOK", "GENERAL_AI", "ERROR"})
    /\ [](pc # "raised")
    /\ [][Returned => calls' = calls]_vars

C5_Witness ==
    /\ Returned
    /\ Len(calls) = 6
    /\ Failed("generate")
    /\ result[1].answer_type = "ERROR"

\* C6: a returned dict with fallback = true has no citations, chunks_used 0
\* and retrieval_score 0; and when every retrieved candidate scores below the
\* confidence threshold the returned dict has fallback = true and no
\* citations.
C6_FallbackCarriesNothing ==
    Returned =>
        /\ result[1].fallback =>
              /\ result[1].citations = <<>>
              /\ result[1].chunks_used = 0
              /\ result[1].retrieval_score = 0
        /\ (/\ retrieved_chunks # <<>>
            /\ \A i \in 1..Len(retrieved_chunks) :
                  retrieved_chunks[i].score < cfg.confidence_threshold)
           => result[1].fallback /\ result[1].citations = <<>>

C6_Witness ==
    /\ Returned
    /\ Len(retrieved_chunks) = Cardinality(Points)
    /\ \A i \in 1..Len(retrieved_chunks) :
          retrieved_chunks[i].score < cfg.confidence_threshold
    /\ result[1].fallback
    /\ result[1].citations = <<>>

\* ------------------------------------------- properties of the components

\* C7 as stated: no two citations _extract_citations returns carry the same
\* (chapter, section) pair as emitted, also for chunks whose section name is
\* empty or missing.
C7_AsStated ==
    pc = "cite_done" =>
        \A i, j \in 1..Len(citations) :
            i # j => <<citations[i].chapter, citations[i].section>>
                     # <<citations[j].chapter, citations[j].section>>

\* C8 as stated: for top_n >= 0 the list rerank returns has
\* min(top_n, len(candidates)) elements, whether the model succeeds or fails
\* and whether or not the query is empty.
C8_AsStated ==
    (pc = "rerank_done" /\ top_n # None) =>
        Len(reranked_chunks) = Min(top_n[1], Len(retrieved_chunks))

IdsOf(chunks) == {chunks[i].id : i \in 1..Len(chunks)}

\* C9: when the model returned scores for a non-empty query, the list rerank
\* returns is in non-increasing rerank_score order, each element carries the
\* score the model gave it, and no candidate left out was scored strictly
\* higher than a candidate returned.
C9_RerankOrder ==
    (pc = "rerank_done" /\ ~IsBlank(query) /\ model_scores # None) =>
        /\ \A i \in 1..Len(reranked_chunks) - 1 :
              reranked_chunks[i].rerank_score[1] >= reranked_chunks[i + 1].rerank_score[1]
        /\ \A i \in 1..Len(retrieved_chunks), j \in 1..Len(reranked_chunks) :
              /\ retrieved_chunks[i].id = reranked_chunks[j].id
                    => reranked_chunks[j].rerank_score = Some(model_scores[1][i])
              /\ retrieved_chunks[i].id \notin IdsOf(reranked_chunks)
                    => model_scores[1][i] <= reranked_chunks[j].rerank_score[1]

C9_Witness ==
    /\ pc = "rerank_done"
    /\ ~IsBlank(query)
    /\ model_scores = Some(<<1, 2, 2>>)
    /\ top_n = Some(2)
    /\ Len(reranked_chunks) = 2
    /\ reranked_chunks[1].id = retrieved_chunks[2].id
    /\ reranked_chunks[2].id = retrieved_chunks[3].id

ScoresDescending(s) == \A i \in 1..Len(s) - 1 : s[i].score >= s[i + 1].score

C11_AsStated == IsBlank(query) => calls = <<>>

\* C11: an empty or whitespace-only query is stopped by the /chat route,
\* which rejects the request before answer() is entered and before any
\* remote call.  answer() has no guard of its own: entered directly with
\* such a query it makes the classification call and one general-purpose
\* generation call, and no embedding, search, rerank or grounded call.
C11_BlankQueryStoppedByRoute ==
    /\ [](IsBlank(query) =>
            /\ pc \in {"chat", "rejected"} => calls = <<>>
            /\ ~Called("embed") /\ ~Called("search")
            /\ ~Called("rerank") /\ ~Called("generate")
            /\ Returned => Count("classify") = 1 /\ Count("general") = 1)
    /\ [][(pc = "chat" /\ IsBlank(query)) => (pc' = "rejected" /\ calls' = <<>>)]_vars

C11_Witness == query = "   " /\ pc = "rejected" /\ calls = <<>>

\* C12: retrieve called with an empty or whitespace-only query returns the
\* empty list and makes neither an embedding call nor a search call (it
\* does not raise either).
C12_RetrieveBlankQuery ==
    (Strip(query) = "") =>
        /\ calls = <<>>
    /\ IngestIdle
    /\ ProcessIdle
        /\ pc \in {"retrieve_call", "retrieve_done"}
        /\ retrieved_chunks = <<>>

C12_Witness == query = "   " /\ pc = "retrieve_done" /\ retrieved_chunks = <<>>

\* C13: when the rerank model fails during a rerank call, rerank returns
\* exactly the first top_n input candidates (top_n defaulting to the
\* configured value), in their original order.
C13_RerankModelFailure ==
    (pc = "rerank_done" /\ Failed("rerank")) =>
        LET n == IF top_n = None THEN RERANK_TOP_N ELSE top_n[1] IN
        /\ Len(reranked_chunks) = Min(n, Len(retrieved_chunks))
        /\ \A i \in 1..Len(reranked_chunks) : reranked_chunks[i] = retrieved_chunks[i]

C13_Witness ==
    /\ pc = "rerank_done"
    /\ Failed("rerank")
    /\ top_n = Some(2)
    /\ Len(retrieved_chunks) = 3
    /\ Len(reranked_chunks) = 2

\* C14: when the classification call fails, classify does not raise: it
\* returns IN_SCOPE, and the request goes on to retrieval instead of
\* skipping it.
C14_ClassifierFailsOpen ==
    /\ [](Failed("classify") => (InScope /\ pc # "raised"))
    /\ [][(pc = "classify" /\ calls' = <<<<"classify", "fail">>>>) =>
             (classification' = Some("IN_SCOPE") /\ pc' = "retrieve")]_vars

C14_Witness == Failed("classify") /\ InScope /\ Succeeded("search")

\* C15: when the embedding call or the search call fails inside retrieve
\* (the query is not empty), retrieve raises to its caller; it never
\* returns a list, empty or partial, in place of the error.
C15_RetrieveRaises ==
    (Failed("embed") \/ Failed("search")) =>
        (pc = "retrieve_raised" /\ Strip(query) # "")

C15_Witness == pc = "retrieve_raised" /\ Succeeded("embed") /\ Failed("search")

\* C16 as stated: when a batch has failed on all its max_retries attempts
\* the call aborts, no later batch is submitted, and the failure handed to
\* the caller carries the number of points committed before the abort.
C16_AsStated ==
    (pc = "upsert_raised") =>
        /\ upsert_outcome # None
        /\ upsert_outcome[1].kind = "raised"
        /\ upsert_outcome[1].count = Some(total_upserted)

\* Indices of the upsert_points calls made for batch b.
AttemptsOf(b) == {i \in 1..Len(upsert_log) : upsert_log[i][1] = b}

\* C17: every batch is submitted at most max_retries times, is submitted
\* again only after a failed attempt and never after a successful one, and
\* batch i+1 is never submitted before batch i has succeeded.
C17_BoundedOrderedRetries ==
    /\ \A i \in 1..Len(upsert_log) :
          Cardinality(AttemptsOf(upsert_log[i][1])) <= max_retries
    /\ \A i, j \in 1..Len(upsert_log) :
          (i < j /\ upsert_log[i][1] = upsert_log[j][1]) => upsert_log[i][2] = "fail"
    /\ \A j \in 1..Len(upsert_log) :
          upsert_log[j][1] > 1 =>
              \E i \in 1..(j - 1) : upsert_log[i] = <<upsert_log[j][1] - 1, "ok">>

C17_Witness ==
    /\ max_retries = 2
    /\ Len(upsert_log) = 4
    /\ upsert_log[1] = <<1, "fail">>
    /\ upsert_log[2] = <<1, "ok">>
    /\ upsert_log[3] = <<2, "fail">>
    /\ upsert_log[4] = <<2, "fail">>
    /\ pc = "upsert_raised"

\* C18 as stated: the waits before successive retries of one batch grow by
\* a constant factor greater than 1 (retry_delay, 2*retry_delay,
\* 4*retry_delay, ...), for every max_retries.
C18_AsStated ==
    /\ \A i \in 1..Len(sleeps) :
          (i = 1 \/ sleeps[i - 1][1] # sleeps[i][1]) => sleeps[i][2] = retry_delay
    /\ \A i \in 1..(Len(sleeps) - 1) :
          sleeps[i][1] = sleeps[i + 1][1] => sleeps[i + 1][2] > sleeps[i][2]
    /\ \A i \in 1..(Len(sleeps) - 2) :
          (sleeps[i][1] = sleeps[i + 1][1] /\ sleeps[i + 1][1] = sleeps[i + 2][1]) =>
              sleeps[i + 1][2] * sleeps[i + 1][2] = sleeps[i][2] * sleeps[i + 2][2]

\* A chunk made of one fragment that _split_long_sentence cut out.
ForceSplit(c) ==
    /\ Len(c.sentences) = 1
    /\ PieceTokens(c.sentences[1]) < text_sentences[c.sentences[1].sent]

\* C19 as stated: with chunk_overlap < chunk_size, every chunk that does
\* not come from force-splitting has a token count (the sum over its
\* sentences) of at most chunk_size, chunks that start with carried-over
\* overlap sentences included.
C19_AsStated ==
    (pc = "chunk_done" /\ chunk_overlap < chunk_size) =>
        \A i \in 1..Len(text_chunks) :
            ~ForceSplit(text_chunks[i]) => text_chunks[i].token_count <= chunk_size

\* The token positions a chunk holds: <<sentence, offset>>.
TokensOf(c) ==
    UNION {{<<c.sentences[j].sent, t>> : t \in c.sentences[j].from..c.sentences[j].to} :
             j \in 1..Len(c.sentences)}

\* Tokens of the earlier chunk that the later chunk repeats.
Repeated(earlier, later) == Cardinality(TokensOf(earlier) \cap TokensOf(later))

\* C20: for every pair of consecutive chunks chunk_text produced, the
\* tokens of the earlier chunk repeated (at the start of) the later chunk
\* number at most chunk_overlap.
C20_OverlapBound ==
    (pc = "chunk_done") =>
        \A i \in 1..(Len(text_chunks) - 1) :
            Repeated(text_chunks[i], text_chunks[i + 1]) <= chunk_overlap

C20_Witness ==
    /\ pc = "chunk_done"
    /\ chunk_overlap = 2
    /\ \E i \in 1..(Len(text_chunks) - 1) :
          /\ ~ForceSplit(text_chunks[i]) /\ ~ForceSplit(text_chunks[i + 1])
          /\ Repeated(text_chunks[i], text_chunks[i + 1]) = 2
    /\ \E i \in 1..(Len(text_chunks) - 1) :
          /\ ForceSplit(text_chunks[i]) /\ ForceSplit(text_chunks[i + 1])
          /\ Repeated(text_chunks[i], text_chunks[i + 1]) = 2

\* C21 as stated: for every chunk_size and chunk_overlap the validators
\* accept and every sentence with more tokens than chunk_size, every token
\* position of the sentence lies in at least one of the chunks that
\* force-splitting it produced.
C21_AsStated ==
    (pc = "chunk_done") =>
        \A k \in 1..Len(text_sentences) :
            text_sentences[k] > chunk_size =>
                \A t \in 1..text_sentences[k] :
                    \E i \in 1..Len(text_chunks) : <<k, t>> \in TokensOf(text_chunks[i])

\* C22 as stated: chunk_text raises no error for any text under any
\* chunk_size and chunk_overlap the validators accept; it always returns
\* a sequence of chunks.
C22_AsStated == pc # "chunk_raised"

\* C23 as stated: with chunk_size 512 and chunk_overlap 50 a paragraph of
\* 600 tokens yields exactly 2 chunks however it divides into sentences,
\* and the second chunk starts with at most 50 tokens of the first.
C23_AsStated ==
    (pc # "chunk_call") =>
        /\ pc = "chunk_done"
        /\ Len(text_chunks) = 2
        /\ Repeated(text_chunks[1], text_chunks[2]) <= 50

\* C23: with chunk_size 512 and chunk_overlap 50 a paragraph of 600 tokens
\* yields 2, 3 or 4 chunks depending on how it divides into sentences
\* (exactly 2 when it is a single sentence), and every chunk after the
\* first starts with at most 50 tokens repeated from the chunk before it.
C23_ParagraphChunks ==
    (pc # "chunk_call") =>
        /\ pc = "chunk_done"
        /\ Len(text_chunks) \in 2..4
        /\ Len(text_sentences) = 1 => Len(text_chunks) = 2
        /\ \A i \in 1..(Len(text_chunks) - 1) :
              Repeated(text_chunks[i], text_chunks[i + 1]) <= 50

C23_Witness ==
    /\ pc = "chunk_done"
    /\ text_sentences = <<60, 500, 40>>
    /\ Len(text_chunks) = 3

\* The backend a collection is meant for.
BackendOf(name) == IF name = COLLECTION_OPENAI THEN "openai" ELSE "local"

C25_AsStated ==
    (pc = "lb_idle" /\ load_status = Some("success")) =>
        /\ \A name \in DOMAIN qdrant :
              \A p \in qdrant[name].points : p.id[1] = passes
        /\ \A r \in paragraph_rows : r.embedding_id[1] = passes
        /\ \A seg \in BookSegments :
              Cardinality({r \in paragraph_rows : r.segment = seg}) = 1

\* C26 as stated: over any sequence of requests in one process the
\* embedding handle, the Vector Index client and the language-model client
\* are each constructed at most once, and every later use obtains that
\* same instance.
C26_AsStated ==
    (pc = "serving") =>
        /\ built.embedder <= 1 /\ built.qdrant <= 1 /\ built.llm <= 1
        /\ \A i, j \in 1..Len(handles) :
              handles[i][1] = handles[j][1] => handles[i][2] = handles[j][2]

StageRank(name) ==
    CASE name = "classify" -> 1
      [] name = "embed" -> 2
      [] name = "search" -> 3
      [] name = "rerank" -> 4
      [] OTHER -> 5

\* C27: within one request the calls are made in the order classify, embed,
\* search, rerank, generate; classify, embed, search and rerank are each
\* made at most once; embed follows the classifier's return, and search,
\* rerank and grounded generation each directly follow the successful
\* return of the stage before.  Only generation can happen twice (grounded,
\* then general-purpose).
C27_StagesInOrder ==
    /\ \A i, j \in 1..Len(calls) :
          i < j => StageRank(calls[i][1]) <= StageRank(calls[j][1])
    /\ \A name \in {"classify", "embed", "search", "rerank"} : Count(name) <= 1
    /\ Count("generate") <= 1 /\ Count("general") <= 1
    /\ \A i \in 1..Len(calls) :
          /\ calls[i][1] = "classify" => i = 1
          /\ calls[i][1] = "embed" => i = 2 /\ calls[1][1] = "classify"
          /\ calls[i][1] = "search" => i > 1 /\ calls[i - 1] = <<"embed", "ok">>
          /\ calls[i][1] = "rerank" => i > 1 /\ calls[i - 1] = <<"search", "ok">>
          /\ calls[i][1] = "generate" => i > 1 /\ calls[i - 1][1] = "rerank"
          /\ calls[i][1] = "general" => i > 1 /\ i = Len(calls)

C27_Witness ==
    /\ Returned
    /\ calls = <<<<"classify", "ok">>, <<"embed", "ok">>, <<"search", "ok">>,
                 <<"rerank", "ok">>, <<"generate", "ok">>, <<"general", "ok">>>>

\* C28: when grounded generation returned and the top similarity score is
\* below 0.5, the returned dict is the one of the general-purpose path:
\* answer_type GENERAL_AI or ERROR, fallback = true, no citations, and the
\* grounded answer is not in it.
C28_SecondThresholdDiscards ==
    (/\ Returned
     /\ Succeeded("generate")
     /\ TopScore(reranked_chunks) < SECOND_THRESHOLD)
    => /\ result # None
       /\ Called("general")
       /\ result[1].answer_type \in {"GENERAL_AI", "ERROR"}
       /\ result[1].fallback
       /\ result[1].citations = <<>>
       /\ result[1].answer \notin GroundedAnswers

C28_Witness ==
    /\ Returned
    /\ Succeeded("generate")
    /\ citations # <<>>
    /\ cfg.confidence_threshold <= TopScore(reranked_chunks)
    /\ TopScore(reranked_chunks) < SECOND_THRESHOLD
    /\ Failed("general")
    /\ result[1].answer_type = "ERROR"
    /\ result[1].citations = <<>>

EmptyRetrieval ==
    /\ InScope
    /\ ~Failed("embed")
    /\ ~Failed("search")
    /\ \/ retrieved_chunks = <<>> /\ pc \notin {"classify", "retrieve", "search"}
       \/ Called("rerank") /\ reranked_chunks = <<>>

\* C29 as stated: an IN_SCOPE query whose retrieval (or reranking) came
\* back empty is answered with the fixed "cannot answer" response, without
\* grounded generation and without general-purpose generation.
C29_AsStated ==
    (Returned /\ EmptyRetrieval)
    => /\ result # None
       /\ result[1].answer = CANNOT_ANSWER
       /\ result[1].citations = <<>>
       /\ ~Called("generate")
       /\ ~Called("general")

\* C29: an IN_SCOPE query whose retrieval (or reranking) came back empty
\* skips grounded generation; the fixed "cannot answer" response of
\* generate_answer is dropped and the returned dict is that of
\* general-purpose generation: GENERAL_AI with the general answer, or ERROR
\* with the apology, fallback = true and no citations.
C29_EmptyRetrievalGoesGeneral ==
    /\ (Returned /\ EmptyRetrieval)
       => /\ result # None
          /\ ~Called("generate")
          /\ Called("general")
          /\ result[1].answer # CANNOT_ANSWER
          /\ result[1].fallback
          /\ result[1].citations = <<>>
          /\ \/ Succeeded("general") /\ result[1] \in {GeneralResult(a) : a \in GeneralAnswers}
             \/ Failed("general") /\ result[1] = ErrorResult
    /\ (EmptyRetrieval /\ ~Returned) => pc = "general" /\ ~Called("generate")

C29_Witness ==
    /\ Returned
    /\ InScope
    /\ calls = <<<<"classify", "ok">>, <<"embed", "ok">>, <<"search", "ok">>,
                 <<"general", "ok">>>>
    /\ retrieved_chunks = <<>>
    /\ result[1].answer_type = "GENERAL_AI"

GatePassed == pc = "generate" \/ Called("generate")

\* C30: once rerank returned candidates, grounded generation is reached
\* exactly when the similarity score of the first reranked candidate is at
\* least the threshold; the rerank scores and the other candidates'
\* similarity scores do not enter the decision.
C30_GateReadsFirstSimilarity ==
    (Called("rerank") /\ reranked_chunks # <<>>)
    => (GatePassed <=> reranked_chunks[1].score >= cfg.confidence_threshold)

C30_Witness ==
    /\ pc = "general"
    /\ Succeeded("rerank")
    /\ ~Called("generate")
    /\ Len(reranked_chunks) > 1
    /\ reranked_chunks[1].score < cfg.confidence_threshold
    /\ reranked_chunks[2].score >= cfg.confidence_threshold
    /\ MaxScore(reranked_chunks) >= cfg.confidence_threshold

\* The deduplication key of a candidate and the positions at which a key
\* occurs for the first time.
KeyOf(chunk) == <<Get(chunk.chapter_title, "Unknown Chapter"), chunk.section_name>>

FirstOccurrences(chunks) ==
    {i \in 1..Len(chunks) : \A j \in 1..(i - 1) : KeyOf(chunks[j]) # KeyOf(chunks[i])}

NthFirst(chunks, k) ==
    CHOOSE i \in FirstOccurrences(chunks) :
        Cardinality({j \in FirstOccurrences(chunks) : j <= i}) = k

\* C31: _extract_citations returns one citation per distinct
\* (chapter title, section name) key of the candidates, and the k-th citation
\* is the one of the k-th key in order of first occurrence, built from the
\* candidate in which that key first occurs.
C31_OnePerKeyInFirstSeenOrder ==
    pc = "cite_done" =>
        /\ Len(citations) = Cardinality({KeyOf(reranked_chunks[i]) : i \in 1..Len(reranked_chunks)})
        /\ \A k \in 1..Len(citations) :
              LET chunk == reranked_chunks[NthFirst(reranked_chunks, k)] IN
              /\ citations[k].chapter = KeyOf(chunk)[1]
              /\ citations[k].section \in {None, KeyOf(chunk)[2]}
              /\ citations[k].section = None => KeyOf(chunk)[2] \in {None, Some("")}
              /\ citations[k].paragraph = chunk.paragraph_index

C31_Witness ==
    /\ pc = "cite_done"
    /\ Len(reranked_chunks) = 3
    /\ KeyOf(reranked_chunks[1]) = <<"A", Some("1.1")>>
    /\ KeyOf(reranked_chunks[2]) = <<"B", Some("1.1")>>
    /\ KeyOf(reranked_chunks[3]) = <<"A", Some("1.1")>>
    /\ reranked_chunks[1].paragraph_index # reranked_chunks[3].paragraph_index
    /\ Len(citations) = 2
    /\ citations[2].chapter = "B"

\* C32 as stated: in every chapter process_book returns, the
\* paragraph_index values of the chunks are 0, 1, ..., n-1 in chunk order,
\* also when one section yields several chunks.
C32_AsStated ==
    pc = "book_done" =>
        \A c \in 1..Len(chapters) :
            \A i \in 1..Len(chapters[c].chunks) :
                chapters[c].chunks[i].paragraph_index = i - 1

AllIndexPoints == UNION {qdrant[name].points : name \in CollectionNames}

\* C33 as stated: after any load_book call, successful or failed at any
\* step, every point in the Vector Index has exactly one paragraph row whose
\* embedding_id is its id, and every paragraph row has such a point.
C33_AsStated ==
    (pc = "lb_idle" /\ load_status # None) =>
        /\ \A p \in AllIndexPoints :
              Cardinality({r \in paragraph_rows : r.embedding_id = p.id}) = 1
        /\ \A r \in paragraph_rows :
              \E p \in AllIndexPoints : p.id = r.embedding_id

\* C34: every returned dict with answer_type BOOK has fallback = false, a
\* retrieval_score of at least the confidence threshold and at least 0.5, at
\* least one citation and between 1 and 5 chunks_used; and every returned
\* dict with fallback = false has answer_type BOOK.
C34_BookResultShape ==
    Returned =>
        /\ result # None
        /\ result[1].answer_type = "BOOK" =>
              /\ ~result[1].fallback
              /\ result[1].retrieval_score >= cfg.confidence_threshold
              /\ result[1].retrieval_score >= SECOND_THRESHOLD
              /\ Len(result[1].citations) >= 1
              /\ result[1].chunks_used >= 1
              /\ result[1].chunks_used <= 5
        /\ ~result[1].fallback => result[1].answer_type = "BOOK"

C34_Witness ==
    /\ Returned
    /\ Len(retrieved_chunks) = 6
    /\ result[1].answer_type = "BOOK"
    /\ result[1].chunks_used = 5
    /\ ~result[1].fallback
    /\ result[1].retrieval_score = 8

\* C35 as stated: in every BOOK result every candidate placed in the
\* context has a similarity score of at least the confidence threshold, for
\* every setting of the similarity floor and of the confidence threshold.
C35_AsStated ==
    (Returned /\ result # None /\ result[1].answer_type = "BOOK") =>
        \A i \in 1..Len(reranked_chunks) :
            reranked_chunks[i].score >= cfg.confidence_threshold

\* C35: in every BOOK result the first candidate placed in the context has a
\* similarity score of at least the confidence threshold and every candidate
\* has one of at least the similarity floor; so all of them are at least the
\* confidence threshold when the floor is at least the threshold (as with
\* the defaults), and need not be when the floor is lower.
C35_FirstAboveThresholdAllAboveFloor ==
    (Returned /\ result # None /\ result[1].answer_type = "BOOK") =>
        /\ reranked_chunks # <<>>
        /\ reranked_chunks[1].score >= cfg.confidence_threshold
        /\ \A i \in 1..Len(reranked_chunks) :
              reranked_chunks[i].score >= cfg.score_threshold
        /\ cfg.score_threshold >= cfg.confidence_threshold =>
              \A i \in 1..Len(reranked_chunks) :
                  reranked_chunks[i].score >= cfg.confidence_threshold

C35_Witness ==
    /\ Returned
    /\ result[1].answer_type = "BOOK"
    /\ cfg.score_threshold < cfg.confidence_threshold
    /\ cfg.confidence_threshold = DEFAULT_CONFIDENCE_THRESHOLD
    /\ Len(reranked_chunks) = 2
    /\ reranked_chunks[1].score = 8
    /\ reranked_chunks[2].score = 2
    /\ result[1].chunks_used = 2

\* C36 as stated: for every batch_size >= 1 and every max_retries, 0
\* included, when batch_upsert_with_retry returns normally the count it
\* returns is len(points), every point went into the index, and every batch
\* was part of exactly one successful upsert_points call.
C36_AsStated ==
    pc = "upsert_done" =>
        /\ upsert_outcome = Some(ReturnedCount(Len(points)))
        /\ collection = {points[i] : i \in 1..Len(points)}
        /\ \A b \in 1..((Len(points) + batch_size - 1) \div batch_size) :
              Cardinality({i \in 1..Len(upsert_log) : upsert_log[i] = <<b, "ok">>}) = 1

\* Piece p lies before piece q in the text.
Before(p, q) == p.sent < q.sent \/ (p.sent = q.sent /\ p.from < q.from)

\* The pieces of chunk cur start with a repeated tail of chunk prev and go
\* on with text that lies after everything in prev.
ContinuesAfter(prev, cur) ==
    \E m \in 0..Min(Len(prev), Len(cur)) :
        /\ SubSeq(cur, 1, m) = SubSeq(prev, Len(prev) - m + 1, Len(prev))
        /\ \A j \in (m + 1)..Len(cur) : \A i \in 1..Len(prev) : Before(prev[i], cur[j])

\* C37: with chunk_overlap < chunk_size, every sentence of at most
\* chunk_size tokens is whole in at least one chunk, the pieces of a chunk
\* are in text order, and each chunk after the first repeats at most a tail
\* of the chunk before it and otherwise holds later text only.
C37_SentencesKeptInOrder ==
    (pc = "chunk_done" /\ chunk_overlap < chunk_size) =>
        /\ \A k \in 1..Len(text_sentences) :
              text_sentences[k] <= chunk_size =>
                  \E c \in 1..Len(text_chunks) :
                      \E j \in 1..Len(text_chunks[c].sentences) :
                          text_chunks[c].sentences[j]
                              = [sent |-> k, from |-> 1, to |-> text_sentences[k]]
        /\ \A c \in 1..Len(text_chunks) :
              \A j \in 1..(Len(text_chunks[c].sentences) - 1) :
                  Before(text_chunks[c].sentences[j], text_chunks[c].sentences[j + 1])
        /\ \A c \in 2..Len(text_chunks) :
              ContinuesAfter(text_chunks[c - 1].sentences, text_chunks[c].sentences)

C37_Witness ==
    /\ pc = "chunk_done"
    /\ chunk_overlap < chunk_size
    /\ Len(text_sentences) = 3
    /\ \A k \in 1..3 : text_sentences[k] <= chunk_size
    /\ Len(text_chunks) = 2
    /\ Len(text_chunks[1].sentences) = 2
    /\ Len(text_chunks[2].sentences) = 2
    /\ text_chunks[2].sentences[1] = text_chunks[1].sentences[2]
    /\ text_chunks[2].sentences[2].sent = 3

\* C38 as stated: under any interleaving of concurrent /personalize
\* requests for one key that miss the cache, every request whose
\* personalization call returned adapted text responds with that text, also
\* when another request committed its cache row for the key first.
C38_AsStated ==
    \A r \in DOMAIN responses :
        (responses[r] # None /\ agent_text[r] # None) =>
            /\ responses[r][1].status = 200
            /\ responses[r][1].content = agent_text[r][1]

AllCallsSucceeded == \A i \in 1..Len(calls) : calls[i][2] = "ok"

\* C39: when the similarity floor the index applies is at least the
\* confidence threshold and at least 0.5, an IN_SCOPE request with a
\* non-empty retrieval whose calls all succeed passes both gates: it returns
\* answer_type BOOK and the general-purpose path is not entered.
C39_GatesIdleAboveFloor ==
    (/\ cfg.score_threshold >= cfg.confidence_threshold
     /\ cfg.score_threshold >= SECOND_THRESHOLD
     /\ InScope
     /\ retrieved_chunks # <<>>
     /\ AllCallsSucceeded)
    => /\ pc \in {"rerank", "generate", "done"}
       /\ ~Called("general")
       /\ Returned => (result # None /\ result[1].answer_type = "BOOK"
                                     /\ ~result[1].fallback)

C39_Witness ==
    /\ Returned
    /\ InScope
    /\ cfg = DefaultSettings
    /\ AllCallsSucceeded
    /\ Len(calls) = 5
    /\ Len(retrieved_chunks) = 3
    /\ result[1].answer_type = "BOOK"
    /\ result[1].retrieval_score = DEFAULT_SCORE_THRESHOLD

====
